---- MODULE Spec2Model ----
(***************************************************************************)
(* The local-directory persistence layer of LLMCMS (fileSystemManager.js   *)
(* and indexedDB.js): the directory session that owns the in-memory cached *)
(* handle, the IndexedDB handle store, the permission gate, and the calls  *)
(* built on them.  Every async function is a sequence of steps, one per    *)
(* await; the platform (permission prompts, the directory picker, the      *)
(* storage engine, the file system) answers each step nondeterministically.*)
(***************************************************************************)
EXTENDS Integers, FiniteSets, Sequences, TLC

VARIABLES
    hasShowDirectoryPicker,  \* 'showDirectoryPicker' in window
    hasShowOpenFilePicker,   \* 'showOpenFilePicker' in window
    dbOk,                    \* the IndexedDB engine can be opened in this session
    perm,                    \* perm[h]: the browser's permission state of handle h
    enumerable,              \* enumerable[h]: the directory of h still exists and lists
    contentDirectoryHandle,  \* the module-level cache of fileSystemManager.js
    handles,                 \* the object store 'handles' of 'llmcms-storage': its records,
                             \* a value under each key it holds
    dbState,                 \* 'llmcms-storage': "absent", "nostore" (no 'handles'), "ready"
    call,                    \* call[p]: the async call task p is running
    ncalls,                  \* calls started so far
    lastPicked,              \* handle of the latest successful interactive acquisition,
                             \* still cached and untouched by the environment since
    filename,                \* the argument ensureMarkdownExtension is applied to
    normalized,              \* what ensureMarkdownExtension(filename) returned or threw
    renormalized,            \* what ensureMarkdownExtension gave for its own result
    files,                   \* files[h][name]: the file called name in the directory of h
    entries                  \* what a content directory holds besides those files, in
                             \* the order its enumeration yields them

sessionVars == <<hasShowDirectoryPicker, hasShowOpenFilePicker, dbOk, perm, enumerable,
                 contentDirectoryHandle, handles, dbState, call, ncalls, lastPicked>>

nameVars == <<filename, normalized, renormalized>>

fileVars == <<files>>

listVars == <<entries>>

vars == <<sessionVars, nameVars, fileVars, listVars>>

env == <<hasShowDirectoryPicker, hasShowOpenFilePicker, dbOk>>

----------------------------------------------------------------------------
(* Bounds *)

NumHandles == 2     \* directories the user can pick
MaxCalls == 2       \* calls started in one page session
MaxNameLen == 5     \* characters in a file name passed to ensureMarkdownExtension
MaxEntries == 2     \* entries of a content directory besides the files written to it
MaxStoreCalls == 4  \* direct calls of the exports of indexedDB.js in one session

----------------------------------------------------------------------------
(* Values *)

Null == 0                               \* no handle (JavaScript null)
Handles == 1..NumHandles
NotADirectory == NumHandles + 1         \* an item whose kind is not 'directory'
Items == Handles \cup {NotADirectory}
PermStates == {"granted", "prompt", "denied"}
Procs == {"t1", "t2"}                   \* tasks of the page's event loop
MainTask == "t1"                        \* the task whose calls run one after another

Kind(h) == IF h \in Handles THEN "directory" ELSE "file"

\* indexedDB.js: the one key under which the directory handle is kept
DIRECTORY_HANDLE_KEY == "content-directory-handle"

\* a put that keeps one record for every value
Put_KeyPerValue(store, value, key) ==
    [k \in DOMAIN store \cup {key \o "-" \o ToString(value)} |->
        IF k = key \o "-" \o ToString(value) THEN value ELSE store[k]]

\* IDBObjectStore.put(value, key): the record under the key is added or replaced
Put(store, value, key) ==
    [k \in DOMAIN store \cup {key} |-> IF k = key THEN value ELSE store[k]]
\* IDBObjectStore.delete(key): a no-op when the key holds nothing
Delete(store, key) == [k \in DOMAIN store \ {key} |-> store[k]]
\* IDBObjectStore.get(key): undefined when the key holds nothing
Get(store, key) == IF key \in DOMAIN store THEN store[key] ELSE Null
\* an object store with nothing in it, or with v under DIRECTORY_HANDLE_KEY
Holding(v) == [k \in IF v = Null THEN {} ELSE {DIRECTORY_HANDLE_KEY} |-> v]

\* the record under DIRECTORY_HANDLE_KEY in 'handles'
stored == Get(handles, DIRECTORY_HANDLE_KEY)

\* error.message of the errors raised inside the try block of
\* getContentDirectoryHandle, by the platform or by the function itself
MsgInvalid == "Selected item is not a valid directory"
MsgDenied == "Permission denied for directory access"
MsgNoPicker == "window.showDirectoryPicker is not a function"
MsgSecurity == "Must be handling a user gesture to show a file picker."
MsgAbort == "The user aborted a request."
MsgPickerActive == "File picker already active."
MsgStore == "Failed to store directory handle: storage unavailable"

\* error.message of what the exports of indexedDB.js throw
FailedToStore(msg) == "Failed to store directory handle: " \o msg
MsgInvalidHandle == "Invalid directory handle provided"
MsgClear == "Failed to clear directory handle: storage unavailable"

\* error.message of what getContentDirectoryHandle throws to its caller
FailedToAccess(msg) == "Failed to access directory: " \o msg
ErrCancelled == "Directory selection cancelled by user"
ErrInvalid == FailedToAccess(MsgInvalid)
ErrDenied == FailedToAccess(MsgDenied)
NoError == "none"

\* JavaScript values passed as a file name: a string is its sequence of
\* characters; any other value keeps only its typeof
Whitespace == {" "}
Chars == Whitespace \cup {"n", ".", "m", "d"}
Strings == UNION {[1..n -> Chars] : n \in 0..MaxNameLen}
Str(s) == [type |-> "string", chars |-> s]
NonStrings == {[type |-> t, chars |-> <<>>] : t \in {"undefined", "number", "object"}}
JsValues == {Str(s) : s \in Strings} \cup NonStrings
DotMd == <<".", "m", "d">>

\* what a call of ensureMarkdownExtension leaves: a returned name or a thrown error
Named(s) == [ok |-> TRUE, name |-> s, err |-> NoError]
NameError(msg) == [ok |-> FALSE, name |-> <<>>, err |-> msg]
Unapplied == NameError("unapplied")
ErrInvalidName == "Invalid filename provided"
ErrEmptyName == "Filename cannot be empty"

\* a directory entry: no such file, or a file and the content a read returns
NoFile == [exists |-> FALSE, data |-> ""]
File(data) == [exists |-> TRUE, data |-> data]

\* the arguments writeContentFile is called with, and the names files can have
NameArgs == {Str(<<" ", "n">>), Str(<<" ">>)}
\* a JavaScript value passed as content: a string is its text; any other value
\* keeps only its typeof
Text(s) == [type |-> "string", text |-> s]
ContentArgs ==
    {Text(""), Text("# v2"), [type |-> "undefined", text |-> ""],
     [type |-> "number", text |-> ""]}
FileNames == {<<" ", "n">>, <<"n", ".", "m", "d">>}
OldContent == "# v1"

\* what directoryHandle.entries() yields: [name, handle], of the handle its kind
Entry(name, kind) == [name |-> name, kind |-> kind]
OtherEntries ==
    {Entry(<<"a", ".", "m", "d">>, "file"),
     Entry(<<"b", ".", "t", "x", "t">>, "file"),
     Entry(<<"c", ".", "M", "D">>, "file"),
     Entry(<<"x", ".", "m", "d">>, "directory"),
     Entry(<<"a", ".", "m", "d", ".", "m", "d">>, "file"),
     Entry(<<"x", ".", "m", "d", "y", ".", "m", "d">>, "file")}
\* the enumerations of a directory: no two entries share a name
Enumerations ==
    {e \in UNION {[1..n -> OtherEntries] : n \in 0..MaxEntries} :
        \A i, j \in DOMAIN e : i # j => e[i].name # e[j].name}
FailedToList(msg) == "Failed to list files: " \o msg

\* where a click can land while the overwrite modal is shown: its two
\* buttons, the modal element itself (the backdrop), or the white panel
\* inside it
ClickTargets == {"cancel-btn", "overwrite-btn", "modal", "panel"}

\* error.message of the errors raised inside the try block of writeContentFile
MsgContent == "Content must be a non-empty string"
MsgPlatform == "The request is not allowed by the user agent or the platform."
ErrWriteCancelled == "File write cancelled by user"
FailedToWrite(msg) == "Failed to write file: " \o msg

\* a sequence of characters as the string it spells (string concatenation)
RECURSIVE Join(_)
Join(s) == IF s = <<>> THEN "" ELSE Head(s) \o Join(Tail(s))

\* error.message of what readContentFile throws to its caller
ErrFileNotFound(v) == "File not found: " \o Join(v.chars)
FailedToRead(msg) == "Failed to read file: " \o msg
MsgNotFound == "A requested file or directory could not be found."

IdleCall ==
    [op |-> "none", pc |-> "idle", outer |-> <<>>,
     file |-> Str(<<>>), content |-> "", contentType |-> "string", force |-> FALSE,
     dir |-> Null, validFilename |-> <<>>, fileExists |-> FALSE, before |-> NoFile,
     asked |-> 0, agreed |-> FALSE, created |-> FALSE, streams |-> 0, swap |-> "",
     acquireErr |-> NoError, success |-> FALSE, wasOverwritten |-> FALSE,
     lookup |-> "none", snapshot |-> NoFile, text |-> "",
     log |-> <<>>, prev |-> "none", prevErr |-> NoError,
     modal |-> FALSE, resolutions |-> 0, resolvedBy |-> "none", clicked |-> {},
     closedAt |-> 0, replaced |-> NoFile,
     ui |-> "none", stage |-> "none", foreign |-> 0, listed |-> <<>>, ctx |-> "none", h |-> Null, gesture |-> FALSE,
     ret |-> Null, answer |-> FALSE, err |-> NoError, path |-> "none",
     reads |-> 0, puts |-> 0, clears |-> 0, picks |-> 0, requests |-> 0,
     permOk |-> {}, validOk |-> {}, failed |-> {},
     cachedFailed |-> FALSE, storedFailed |-> FALSE, lastGate |-> "none",
     entryCache |-> Null, readResult |-> "unread", readHeld |-> Null,
     s3cache |-> Null, s3stored |-> Null, pick |-> "none", shown |-> FALSE,
     since |-> <<Null, 0>>, probed |-> Null, putAt |-> 0,
     opened |-> 0, closed |-> 0]

\* what a step leaves behind: the call's new record and the cache's new value
Out(c, cache) == [c |-> c, cache |-> cache]

----------------------------------------------------------------------------
(* fileSystemManager.js *)

isFileSystemAccessSupported == hasShowDirectoryPicker /\ hasShowOpenFilePicker

\* return <value> / throw new Error(<message>) out of the exported function
Return(c, v, path) == [c EXCEPT !.pc = "done", !.ret = v, !.path = path]
Throw(c, msg) == [c EXCEPT !.pc = "done", !.err = msg]

\* checkDirectoryPermission(handle) up to its first await
CallCheckPermission(c, ctx, h) == [c EXCEPT !.pc = "query", !.ctx = ctx, !.h = h]
\* validateDirectoryHandle(handle) up to its await; the kind test is synchronous
CallValidate(c, ctx, h) == [c EXCEPT !.pc = "validate", !.ctx = ctx, !.h = h]
\* cleanupRevokedPermissions() up to the await of clearStoredDirectoryHandle
CallCleanup(c) == [c EXCEPT !.pc = "clear"]
\* getStoredDirectoryHandle() up to its await
CallGetStored(c) == [c EXCEPT !.pc = "get"]
\* window.showDirectoryPicker(...) inside the try block
CallPicker(c) == [c EXCEPT !.pc = "picker"]

\* return true / return false out of isDirectoryAccessConfigured
Answer(c, b) == [c EXCEPT !.pc = "done", !.answer = b]

\* a catch block that reports every error as a cancelled selection
Acquire_Catch_AllCancelled(c, name, msg) == Throw(c, ErrCancelled)

\* a catch block that logs the error and returns null
Acquire_Catch_Swallow(c, name, msg) == Return(c, Null, "none")

\* the catch block of getContentDirectoryHandle, given error.name and error.message
Acquire_Catch(c, name, msg) ==
    IF name = "AbortError" THEN Throw(c, ErrCancelled)
    ELSE Throw(c, FailedToAccess(msg))

\* an entry that consults the durable store before the cache
Acquire_Start_StoreFirst(c, cache) == Out(CallGetStored(c), cache)

\* getContentDirectoryHandle, from entry to the first await
Acquire_Start(c, cache) ==
    IF cache # Null
    THEN Out(CallCheckPermission(c, "cached", cache), cache)
    ELSE Out(CallGetStored(c), cache)

\* a stored handle returned on its permission alone, never validated
Acquire_AfterPermission_SkipValidate(c, ok, cache) ==
    CASE c.ctx = "cached" ->
            IF ok THEN Out(CallValidate(c, "cached", cache), cache)
            ELSE Out(CallCleanup(c), Null)
      [] c.ctx = "stored" ->
            IF ok THEN Out(Return(c, c.h, "stored"), c.h)
            ELSE Out(CallCleanup(c), cache)
      [] OTHER ->
            IF ok THEN Out([c EXCEPT !.pc = "put"], cache)
            ELSE Out(Acquire_Catch(c, "Error", MsgDenied), cache)

\* getContentDirectoryHandle resumed with hasPermission = ok
Acquire_AfterPermission(c, ok, cache) ==
    CASE c.ctx = "cached" ->
            IF ok THEN Out(CallValidate(c, "cached", cache), cache)
            ELSE Out(CallCleanup(c), Null)
      [] c.ctx = "stored" ->
            IF ok THEN Out(CallValidate(c, "stored", c.h), cache)
            ELSE Out(CallCleanup(c), cache)
      [] OTHER ->
            IF ok THEN Out([c EXCEPT !.pc = "put"], cache)
            ELSE Out(Acquire_Catch(c, "Error", MsgDenied), cache)

\* an invalid stored handle left in the store on the way to the picker
Acquire_AfterValidate_NoCleanup(c, ok, cache) ==
    CASE c.ctx = "cached" ->
            IF ok THEN Out(Return(c, cache, "cached"), cache)
            ELSE Out(CallGetStored(c), Null)
      [] c.ctx = "stored" ->
            IF ok THEN Out(Return(c, c.h, "stored"), c.h)
            ELSE Out(CallPicker(c), cache)
      [] OTHER ->
            IF ok THEN Out(CallCheckPermission(c, "picked", c.h), cache)
            ELSE Out(Acquire_Catch(c, "Error", MsgInvalid), cache)

\* a cached handle that is returned once and then dropped from the cache
Acquire_AfterValidate_Forgets(c, ok, cache) ==
    CASE c.ctx = "cached" ->
            IF ok THEN Out(Return(c, cache, "cached"), Null)
            ELSE Out(CallGetStored(c), Null)
      [] c.ctx = "stored" ->
            IF ok THEN Out(Return(c, c.h, "stored"), c.h)
            ELSE Out(CallCleanup(c), cache)
      [] OTHER ->
            IF ok THEN Out(CallCheckPermission(c, "picked", c.h), cache)
            ELSE Out(Acquire_Catch(c, "Error", MsgInvalid), cache)

\* getContentDirectoryHandle resumed with isValid = ok
Acquire_AfterValidate(c, ok, cache) ==
    CASE c.ctx = "cached" ->
            IF ok THEN Out(Return(c, cache, "cached"), cache)
            ELSE Out(CallGetStored(c), Null)
      [] c.ctx = "stored" ->
            IF ok THEN Out(Return(c, c.h, "stored"), c.h)
            ELSE Out(CallCleanup(c), cache)
      [] OTHER ->
            IF ok THEN Out(CallCheckPermission(c, "picked", c.h), cache)
            ELSE Out(Acquire_Catch(c, "Error", MsgInvalid), cache)

\* getContentDirectoryHandle resumed after await cleanupRevokedPermissions()
Acquire_AfterCleanup(c, cache) ==
    IF c.ctx = "cached" THEN Out(CallGetStored(c), cache)
    ELSE Out(CallPicker(c), cache)

\* a stored handle ignored: straight to the picker
Acquire_AfterGetStored_AlwaysPick(c, sh, cache) == Out(CallPicker(c), cache)

\* getContentDirectoryHandle resumed with storedHandle = sh
Acquire_AfterGetStored(c, sh, cache) ==
    IF sh # Null THEN Out(CallCheckPermission(c, "stored", sh), cache)
    ELSE Out(CallPicker(c), cache)

\* getContentDirectoryHandle resumed with the picker's handle
Acquire_AfterPicker(c, item) == CallValidate(c, "picked", item)

\* the picked handle returned without being cached
Acquire_AfterStore_NoCache(c) == Out(Return(c, c.h, "picked"), contentDirectoryHandle)

\* getContentDirectoryHandle after await storeDirectoryHandle(handle)
Acquire_AfterStore(c) == Out(Return(c, c.h, "picked"), c.h)

\* a probe that consults the cache and the store whatever the browser supports
Probe_Start_Unguarded(c, cache) ==
    IF cache # Null
    THEN Out(CallCheckPermission(c, "cached", cache), cache)
    ELSE Out(CallGetStored(c), cache)

\* isDirectoryAccessConfigured, from entry to the first await
Probe_Start(c, cache) ==
    IF ~isFileSystemAccessSupported THEN Out(Answer(c, FALSE), cache)
    ELSE IF cache # Null
         THEN Out(CallCheckPermission(c, "cached", cache), cache)
         ELSE Out(CallGetStored(c), cache)

\* isDirectoryAccessConfigured resumed with hasPermission = ok
Probe_AfterPermission(c, ok, cache) ==
    IF c.ctx = "cached"
    THEN IF ok THEN Out(CallValidate(c, "cached", cache), cache)
         ELSE Out(CallCleanup(c), Null)
    ELSE IF ok THEN Out(CallValidate(c, "stored", c.h), cache)
         ELSE Out(CallCleanup(c), cache)

\* a probe that answers true for a valid stored handle without caching it
Probe_AfterValidate_NoCache(c, ok, cache) ==
    IF c.ctx = "cached" THEN Out(Answer(c, ok), cache)
    ELSE IF ok THEN Out(Answer(c, TRUE), cache)
         ELSE Out(CallCleanup(c), cache)

\* isDirectoryAccessConfigured resumed with isValid = ok
Probe_AfterValidate(c, ok, cache) ==
    IF c.ctx = "cached" THEN Out(Answer(c, ok), cache)
    ELSE IF ok THEN Out(Answer(c, TRUE), c.h)
         ELSE Out(CallCleanup(c), cache)

\* isDirectoryAccessConfigured resumed after await cleanupRevokedPermissions()
Probe_AfterCleanup(c, cache) == Out(Answer(c, FALSE), cache)

\* a probe that falls through to the picker when nothing is stored
Probe_AfterGetStored_Picks(c, sh, cache) ==
    IF sh = Null THEN Out(CallPicker(c), cache)
    ELSE Out(CallCheckPermission(c, "stored", sh), cache)

\* isDirectoryAccessConfigured resumed with storedHandle = sh
Probe_AfterGetStored(c, sh, cache) ==
    IF sh = Null THEN Out(Answer(c, FALSE), cache)
    ELSE Out(CallCheckPermission(c, "stored", sh), cache)

\* storeDirectoryHandle(directoryHandle) called directly, up to its first
\* await: anything but a directory handle is refused before the database is
\* opened
Store_Start(c) ==
    IF c.h = Null \/ Kind(c.h) # "directory" THEN Throw(c, FailedToStore(MsgInvalidHandle))
    ELSE [c EXCEPT !.pc = "put"]

\* storeDirectoryHandle called directly settles: resolve(), or the catch block
Store_Settle(c, ok) ==
    IF ok THEN [Return(c, Null, "store") EXCEPT !.log = Append(@, c.h)]
    ELSE Throw(c, MsgStore)

\* clearStoredDirectoryHandle called directly settles: resolve() or the early
\* return, or the catch block
Clear_Settle(c, ok) ==
    IF ok THEN [Return(c, Null, "clear") EXCEPT !.log = <<>>]
    ELSE Throw(c, MsgClear)

\* the caller a gate or store call resumes into
AfterPermission(c, ok, cache) ==
    IF c.op = "acquire" THEN Acquire_AfterPermission(c, ok, cache)
    ELSE Probe_AfterPermission(c, ok, cache)

AfterValidate(c, ok, cache) ==
    IF c.op = "acquire" THEN Acquire_AfterValidate(c, ok, cache)
    ELSE Probe_AfterValidate(c, ok, cache)

AfterCleanup(c, ok, cache) ==
    IF c.op = "acquire" THEN Acquire_AfterCleanup(c, cache)
    ELSE IF c.op = "probe" THEN Probe_AfterCleanup(c, cache)
    ELSE Out(Clear_Settle(c, ok), cache)

AfterGetStored(c, sh, cache) ==
    IF c.op = "acquire" THEN Acquire_AfterGetStored(c, sh, cache)
    ELSE IF c.op = "probe" THEN Probe_AfterGetStored(c, sh, cache)
    ELSE Out(Return(c, sh, "get"), cache)

AfterStore(c, ok, cache) ==
    IF c.op = "acquire"
    THEN Out(IF ok THEN [c EXCEPT !.pc = "cache"] ELSE Acquire_Catch(c, "Error", MsgStore),
             cache)
    ELSE Out(Store_Settle(c, ok), cache)

\* what the call has seen of a check on c.h (bookkeeping of the gate's answers)
SawPermission(c, ok) ==
    IF ok THEN [c EXCEPT !.permOk = @ \cup {c.h}, !.lastGate = "permission"]
    ELSE [c EXCEPT !.failed = @ \cup {c.h}, !.lastGate = "permission",
                   !.cachedFailed = @ \/ c.ctx = "cached",
                   !.storedFailed = @ \/ c.ctx = "stored"]

SawValidation(c, ok) ==
    IF ok THEN [c EXCEPT !.validOk = @ \cup {c.h}, !.lastGate = "validate"]
    ELSE [c EXCEPT !.failed = @ \cup {c.h}, !.lastGate = "validate",
                   !.cachedFailed = @ \/ c.ctx = "cached",
                   !.storedFailed = @ \/ c.ctx = "stored"]

\* String.prototype.trim: leading and trailing white space removed
RECURSIVE trimStart(_)
trimStart(s) == IF s # <<>> /\ Head(s) \in Whitespace THEN trimStart(Tail(s)) ELSE s
RECURSIVE trimEnd(_)
trimEnd(s) ==
    IF s # <<>> /\ s[Len(s)] \in Whitespace THEN trimEnd(SubSeq(s, 1, Len(s) - 1)) ELSE s
trim(s) == trimEnd(trimStart(s))

\* String.prototype.endsWith
endsWith(s, suffix) ==
    Len(s) >= Len(suffix) /\ SubSeq(s, Len(s) - Len(suffix) + 1, Len(s)) = suffix

\* a normalization that appends the extension without trimming
ensureMarkdownExtension_NoTrim(v) ==
    IF v.type # "string" \/ v.chars = <<>> THEN NameError(ErrInvalidName)
    ELSE IF trim(v.chars) = <<>> THEN NameError(ErrEmptyName)
    ELSE Named(IF endsWith(v.chars, DotMd) THEN v.chars ELSE v.chars \o DotMd)

\* ensureMarkdownExtension(filename): !filename is true of the empty string
\* and of the falsy non-strings, typeof rejects the other non-strings
ensureMarkdownExtension(v) ==
    IF v.type # "string" \/ v.chars = <<>> THEN NameError(ErrInvalidName)
    ELSE LET cleanFilename == trim(v.chars) IN
         IF cleanFilename = <<>> THEN NameError(ErrEmptyName)
         ELSE Named(IF endsWith(cleanFilename, DotMd) THEN cleanFilename
                    ELSE cleanFilename \o DotMd)

\* String.prototype.includes
includes(s, part) ==
    \E i \in 1..(Len(s) - Len(part) + 1) : SubSeq(s, i, i + Len(part) - 1) = part

\* the catch block of writeContentFile, given error.message
Write_Catch(c, msg) ==
    IF includes(msg, "cancelled") THEN Throw(c, ErrWriteCancelled)
    ELSE Throw(c, FailedToWrite(msg))

\* a write that acquires the directory whatever the content is
Write_Start_Unvalidated(c, cache) ==
    Acquire_Start([c EXCEPT !.op = "acquire", !.outer = <<"write">> \o @], cache)

\* writeContentFile, from entry to its first await: the content is validated
\* (!content || typeof content !== 'string') and getContentDirectoryHandle is
\* entered
Write_Start(c, cache) ==
    IF c.content = "" \/ c.contentType # "string"
    THEN Out(Write_Catch(c, MsgContent), cache)
    ELSE Acquire_Start([c EXCEPT !.op = "acquire", !.outer = <<"write">> \o @], cache)

\* a write under the name as it was given
Write_AfterAcquire_RawName(c) ==
    LET w == [c EXCEPT !.op = "write", !.outer = Tail(@), !.acquireErr = c.err,
                       !.err = NoError, !.dir = c.ret]
        validFilename == ensureMarkdownExtension(c.file) IN
    IF c.err # NoError THEN Write_Catch(w, c.err)
    ELSE IF ~validFilename.ok THEN Write_Catch(w, validFilename.err)
    ELSE [w EXCEPT !.pc = "exists", !.validFilename = c.file.chars]

\* writeContentFile resumed when getContentDirectoryHandle has settled (c is
\* the settled acquisition): the name is normalized and checkFileExists entered
Write_AfterAcquire(c) ==
    LET w == [c EXCEPT !.op = "write", !.outer = Tail(@), !.acquireErr = c.err,
                       !.err = NoError, !.dir = c.ret]
        validFilename == ensureMarkdownExtension(c.file) IN
    IF c.err # NoError THEN Write_Catch(w, c.err)
    ELSE IF ~validFilename.ok THEN Write_Catch(w, validFilename.err)
    ELSE [w EXCEPT !.pc = "exists", !.validFilename = validFilename.name]

\* a write that never asks before replacing a file
Write_AfterExists_NoGate(c, fileExists) ==
    [c EXCEPT !.pc = "create", !.fileExists = fileExists]

\* confirmFileOverwrite up to the promise it returns: the modal is built and
\* appended to document.body
Confirm_Show(c) == [c EXCEPT !.pc = "confirm", !.asked = @ + 1, !.modal = TRUE]

\* cleanup(): the modal is removed if it is still attached
Confirm_Cleanup(c) == [c EXCEPT !.modal = FALSE]

\* resolve(v) of confirmFileOverwrite's promise, reached from a click on target
Confirm_Resolve(c, target, v) ==
    [c EXCEPT !.resolutions = @ + 1,
              !.resolvedBy = IF @ = "none" THEN target ELSE @,
              !.agreed = IF c.resolutions = 0 THEN v ELSE @]

\* a modal whose backdrop answers as the Overwrite button does
Confirm_OnClick_BackdropConfirms(c, target) ==
    LET d == [c EXCEPT !.clicked = @ \cup {target}] IN
    IF target = "cancel-btn" THEN Confirm_Resolve(Confirm_Cleanup(d), target, FALSE)
    ELSE IF target \in {"overwrite-btn", "modal"}
    THEN Confirm_Resolve(Confirm_Cleanup(d), target, TRUE)
    ELSE d

\* the click handlers of the modal, given e.target: the handler of the
\* button clicked, then modal.onclick as the event bubbles, which acts only
\* when the modal element itself was clicked
Confirm_OnClick(c, target) ==
    LET d == [c EXCEPT !.clicked = @ \cup {target}] IN
    IF target = "cancel-btn" THEN Confirm_Resolve(Confirm_Cleanup(d), target, FALSE)
    ELSE IF target = "overwrite-btn" THEN Confirm_Resolve(Confirm_Cleanup(d), target, TRUE)
    ELSE IF target = "modal" THEN Confirm_Resolve(Confirm_Cleanup(d), target, FALSE)
    ELSE d

\* writeContentFile resumed with fileExists
Write_AfterExists(c, fileExists) ==
    IF fileExists /\ ~c.force
    THEN Confirm_Show([c EXCEPT !.fileExists = fileExists])
    ELSE [c EXCEPT !.pc = "create", !.fileExists = fileExists]

\* writeContentFile resumed with shouldOverwrite
Write_AfterConfirm(c, shouldOverwrite) ==
    IF ~shouldOverwrite THEN Write_Catch(c, ErrWriteCancelled)
    ELSE [c EXCEPT !.pc = "create"]

\* writeContentFile after await writable.close(): the result object
Write_AfterClose(c) ==
    [c EXCEPT !.pc = "done", !.success = TRUE, !.wasOverwritten = c.fileExists]

\* a catch block that reports every error the same way
Read_Catch_Generic(c, name, msg) == Throw(c, FailedToRead(msg))

\* the catch block of readContentFile, given error.name and error.message
Read_Catch(c, name, msg) ==
    IF name = "NotFoundError" THEN Throw(c, ErrFileNotFound(c.file))
    ELSE Throw(c, FailedToRead(msg))

\* readContentFile, from entry to its first await: getContentDirectoryHandle
\* is entered
Read_Start(c, cache) ==
    Acquire_Start([c EXCEPT !.op = "acquire", !.outer = <<"read">> \o @], cache)

\* readContentFile resumed when getContentDirectoryHandle has settled (c is
\* the settled acquisition): the name is normalized and getFileHandle entered
Read_AfterAcquire(c) ==
    LET r == [c EXCEPT !.op = "read", !.outer = Tail(@), !.acquireErr = c.err,
                       !.err = NoError, !.dir = c.ret]
        validFilename == ensureMarkdownExtension(c.file) IN
    IF c.err # NoError THEN Read_Catch(r, "Error", c.err)
    ELSE IF ~validFilename.ok THEN Read_Catch(r, "Error", validFilename.err)
    ELSE [r EXCEPT !.pc = "resolve", !.validFilename = validFilename.name]

\* readContentFile resumed after await directoryHandle.getFileHandle(name),
\* given the entry under that name: without { create } an absent file rejects
\* with NotFoundError
Read_AfterGetFileHandle(c, f) ==
    IF f.exists THEN [c EXCEPT !.pc = "getfile", !.lookup = "found"]
    ELSE Read_Catch([c EXCEPT !.lookup = "NotFoundError"], "NotFoundError", MsgNotFound)

\* readContentFile resumed after await fileHandle.getFile(): a snapshot
Read_AfterGetFile(c, f) == [c EXCEPT !.pc = "text", !.snapshot = f]

\* readContentFile resumed after await file.text(): text() always resolves
\* with a string, so the result object is returned
Read_AfterText(c, content) ==
    [c EXCEPT !.pc = "done", !.success = TRUE, !.text = content]

\* String.prototype.indexOf, counted from 1; 0 when the part does not occur
indexOf(s, part) ==
    IF includes(s, part)
    THEN CHOOSE i \in 1..(Len(s) - Len(part) + 1) :
            /\ SubSeq(s, i, i + Len(part) - 1) = part
            /\ \A j \in 1..(i - 1) : SubSeq(s, j, j + Len(part) - 1) # part
    ELSE 0

\* String.prototype.replace with a string pattern: the first occurrence only
replace(s, pattern, replacement) ==
    LET i == indexOf(s, pattern) IN
    IF i = 0 THEN s
    ELSE SubSeq(s, 1, i - 1) \o replacement \o SubSeq(s, i + Len(pattern), Len(s))

\* a filter that looks at the name only
List_Filter_NameOnly(e) == endsWith(e.name, DotMd)

\* handle.kind === 'file' && name.endsWith('.md')
List_Filter(e) == e.kind = "file" /\ endsWith(e.name, DotMd)

\* { name, slug: name.replace('.md', ''), handle }
ContentFile(e) == [name |-> e.name, slug |-> replace(e.name, DotMd, <<>>)]

RECURSIVE List_Collect(_)
\* the for await loop of listContentFiles over an enumeration
List_Collect(e) ==
    IF e = <<>> THEN <<>>
    ELSE (IF List_Filter(Head(e)) THEN <<ContentFile(Head(e))>> ELSE <<>>)
         \o List_Collect(Tail(e))

\* the catch block of listContentFiles, given error.message
List_Catch(c, msg) == Throw(c, FailedToList(msg))

\* listContentFiles, from entry to its first await
List_Start(c, cache) ==
    Acquire_Start([c EXCEPT !.op = "acquire", !.outer = <<"list">> \o @], cache)

\* listContentFiles resumed when getContentDirectoryHandle has settled (c is
\* the settled acquisition)
List_AfterAcquire(c) ==
    LET l == [c EXCEPT !.op = "list", !.outer = Tail(@), !.acquireErr = c.err,
                       !.err = NoError, !.dir = c.ret] IN
    IF c.err # NoError THEN List_Catch(l, c.err)
    ELSE [l EXCEPT !.pc = "entries"]

\* listContentFiles when the enumeration has ended: the result object
List_AfterEntries(c, e) ==
    [c EXCEPT !.pc = "done", !.success = TRUE, !.listed = List_Collect(e)]

\* resetDirectoryAccess, from entry to the promise it returns: the cache is
\* emptied and indexedDB.open('llmcms-storage', 1) is issued
Reset_Start(c) == Out([c EXCEPT !.pc = "open"], Null)

\* request.onsuccess of resetDirectoryAccess, given whether the database has
\* the 'handles' store.  With the store, the handler evaluates
\* store.delete(STORAGE_KEY); STORAGE_KEY is bound nowhere in the module, so a
\* ReferenceError leaves the handler before the delete is requested and
\* before transaction.oncomplete is assigned: the record stays and the
\* promise is never settled.  Without the store the promise resolves.
Reset_OnSuccess(c, hasStore) ==
    IF hasStore THEN [c EXCEPT !.pc = "stuck"] ELSE Return(c, Null, "reset")

\* request.onerror of resetDirectoryAccess: resolve()
Reset_OnError(c) == Return(c, Null, "reset")

----------------------------------------------------------------------------
(* The platform's answers *)

\* handle.queryPermission({ mode: 'readwrite' }) === 'granted'
QueryGranted(h) == perm[h] = "granted"

\* the states handle.requestPermission can leave h in: a prompt is shown only
\* under a user gesture and only when the state is 'prompt'; without a gesture
\* the request is rejected and the state stays
RequestOutcomes(c) ==
    IF perm[c.h] = "prompt" /\ c.gesture THEN PermStates ELSE {perm[c.h]}

\* a validation that looks at the kind only
ValidHandle_KindOnly(h) == Kind(h) = "directory"

\* directoryHandle.entries() from first to last: the other entries, then the
\* files written through this module that exist
Enumeration(h) ==
    entries \o SelectSeq(<<Entry(<<" ", "n">>, "file"), Entry(<<"n", ".", "m", "d">>, "file")>>,
                         LAMBDA e : files[h][e.name].exists)

\* handle.kind === 'directory' and entries().next() resolves
ValidHandle(h) == Kind(h) = "directory" /\ enumerable[h]

\* the record getStoredDirectoryHandle resolves to: null when the engine fails,
\* when nothing is stored, or when what is stored is not a directory handle
StoredRead ==
    IF dbOk /\ stored # Null /\ Kind(stored) = "directory" THEN stored ELSE Null

\* storeDirectoryHandle(h) resolves (it throws on a non-directory and on engine failure)
StoreSucceeds(h) == h # Null /\ Kind(h) = "directory" /\ dbOk /\ dbState # "nostore"

\* the database after initializeDB: opening version 1 of a database that does
\* not exist yet runs onupgradeneeded, which creates the 'handles' store; a
\* database that is already at version 1 is opened as it is
DbAfterInit == IF dbOk /\ dbState = "absent" THEN "ready" ELSE dbState

\* the database after indexedDB.open('llmcms-storage', 1) with no
\* onupgradeneeded handler: a database that did not exist is created at
\* version 1 without any object store
DbAfterBareOpen == IF dbOk /\ dbState = "absent" THEN "nostore" ELSE dbState

\* initializeDB resolves with a connection
Opens == dbOk

\* the connection of storeDirectoryHandle is closed: db.close() is called in
\* transaction.oncomplete only, and db.transaction(['handles']) throws, before
\* that handler is assigned, when the database has no 'handles' store
StoreCloses == dbOk /\ DbAfterInit # "nostore"

\* the connection of getStoredDirectoryHandle and clearStoredDirectoryHandle
\* is closed: at once when there is no 'handles' store, in
\* transaction.oncomplete otherwise
ReadCloses == dbOk

\* the connections a call of the handle store has opened and closed (bookkeeping)
Connected(c, opens, closes) ==
    [c EXCEPT !.opened = @ + (IF opens THEN 1 ELSE 0),
              !.closed = @ + (IF closes THEN 1 ELSE 0)]

\* a close that appends the swap file to what the file holds
Commit_Append(fs, dir, name, swap) ==
    [fs EXCEPT ![dir][name] = File(fs[dir][name].data \o swap)]

\* the directory after writable.close(): the swap file replaces the file whole
Commit(fs, dir, name, swap) == [fs EXCEPT ![dir][name] = File(swap)]

\* the place of a close among the closes that have committed (bookkeeping)
CommitNumber ==
    1 + (CHOOSE n \in {call[q].closedAt : q \in Procs} :
            \A q \in Procs : call[q].closedAt <= n)

\* a clear that rejects when there is no record to delete
ClearSucceeds_OnlyIfPresent == dbOk /\ stored # Null

\* clearStoredDirectoryHandle resolves: the database opens (a delete of a key
\* that holds nothing succeeds, and so does the early return when there is no
\* 'handles' store)
ClearSucceeds == dbOk

\* the store left by clearStoredDirectoryHandle (which throws if the engine fails)
StoredAfterClear == IF dbOk THEN Delete(handles, DIRECTORY_HANDLE_KEY) ELSE handles

\* the latest interactive acquisition, while it is still the cached, granted,
\* enumerable handle
StillPicked(lp, cache, pm, en) ==
    IF lp[1] # Null /\ cache = lp[1] /\ pm[lp[1]] = "granted" /\ en[lp[1]]
    THEN lp ELSE <<Null, 0>>

----------------------------------------------------------------------------
(* Steps *)

\* task p has no call in progress: none started, the last one settled, or
\* the last one is a promise that nothing will ever settle
Idle(p) == call[p].pc \in {"idle", "done", "stuck"} /\ call[p].outer = <<>>

\* the cache and the store as they are when the call enters S3 (bookkeeping)
EnterS3(old, c, cache, st) ==
    IF c.pc = "picker" /\ old.pc # "picker"
    THEN [c EXCEPT !.s3cache = cache, !.s3stored = Get(st, DIRECTORY_HANDLE_KEY)]
    ELSE c

\* window.showDirectoryPicker called while the picker of another call is open:
\* the browser opens one file picker at a time and rejects the second call
OpenPicker(p, old, c) ==
    IF /\ c.pc = "picker" /\ old.pc # "picker"
       /\ \E q \in Procs \ {p} : call[q].pc = "picker" /\ call[q].pick # "busy"
    THEN [c EXCEPT !.pick = "busy"]
    ELSE c

\* a step of task p ends with outcome o and the store holding st
Apply(p, o, st) ==
    /\ call' = [call EXCEPT ![p] = OpenPicker(p, call[p],
                                              EnterS3(call[p], o.c, o.cache, st))]
    /\ contentDirectoryHandle' = o.cache
    /\ handles' = st

Begin(op, g) ==
    [IdleCall EXCEPT !.op = op, !.gesture = g, !.since = lastPicked,
                     !.entryCache = contentDirectoryHandle]

\* the handle the task's previous call confirmed: that call was
\* isDirectoryAccessConfigured and it returned true (bookkeeping)
ConfirmedBy(c) ==
    IF c.op = "probe" /\ c.pc = "done" /\ c.answer THEN c.h ELSE Null

StartAcquire(p) ==
    /\ Idle(p)
    /\ ncalls < MaxCalls
    /\ \E g \in BOOLEAN :
          Apply(p, Acquire_Start([Begin("acquire", g) EXCEPT !.probed = ConfirmedBy(call[p])],
                                 contentDirectoryHandle), handles)
    /\ ncalls' = ncalls + 1
    /\ UNCHANGED <<nameVars, listVars, fileVars, env, dbState, perm, enumerable, lastPicked>>

StartProbe(p) ==
    /\ Idle(p)
    /\ ncalls < MaxCalls
    /\ \E g \in BOOLEAN :
          Apply(p, Probe_Start(Begin("probe", g), contentDirectoryHandle), handles)
    /\ ncalls' = ncalls + 1
    /\ UNCHANGED <<nameVars, listVars, fileVars, env, dbState, perm, enumerable, lastPicked>>

StartReset(p) ==
    /\ Idle(p)
    /\ ncalls < MaxCalls
    /\ Apply(p, Reset_Start(Begin("reset", FALSE)), handles)
    /\ ncalls' = ncalls + 1
    /\ lastPicked' = StillPicked(lastPicked, contentDirectoryHandle', perm, enumerable)
    /\ UNCHANGED <<nameVars, listVars, fileVars, env, dbState, perm, enumerable>>

\* the open request of resetDirectoryAccess settles
ResetOpen(p) ==
    LET c == call[p] IN
    /\ c.pc = "open"
    /\ IF dbOk
       THEN Apply(p, Out(Reset_OnSuccess(c, DbAfterBareOpen = "ready"),
                         contentDirectoryHandle), handles)
       ELSE Apply(p, Out(Reset_OnError(c), contentDirectoryHandle), handles)
    /\ dbState' = DbAfterBareOpen
    /\ UNCHANGED <<nameVars, listVars, fileVars, env, perm, enumerable, ncalls, lastPicked>>

\* checkDirectoryPermission resumed after await handle.queryPermission
QueryPermission(p) ==
    LET c == call[p] IN
    /\ c.pc = "query"
    /\ IF QueryGranted(c.h)
       THEN Apply(p, AfterPermission(SawPermission(c, TRUE), TRUE, contentDirectoryHandle),
                  handles)
       ELSE Apply(p, Out([c EXCEPT !.pc = "request"], contentDirectoryHandle), handles)
    /\ lastPicked' = StillPicked(lastPicked, contentDirectoryHandle', perm, enumerable)
    /\ UNCHANGED <<nameVars, listVars, fileVars, env, dbState, perm, enumerable, ncalls>>

\* checkDirectoryPermission resumed after await handle.requestPermission
RequestPermission(p) ==
    LET c == [call[p] EXCEPT !.requests = @ + 1] IN
    /\ c.pc = "request"
    /\ \E np \in RequestOutcomes(c) :
          /\ perm' = [perm EXCEPT ![c.h] = np]
          /\ Apply(p, AfterPermission(SawPermission(c, np = "granted"), np = "granted",
                                      contentDirectoryHandle), handles)
    /\ lastPicked' = StillPicked(lastPicked, contentDirectoryHandle', perm', enumerable)
    /\ UNCHANGED <<nameVars, listVars, fileVars, env, dbState, enumerable, ncalls>>

\* validateDirectoryHandle resumed after await entries.next()
Validate(p) ==
    LET c == call[p]
        ok == ValidHandle(c.h) IN
    /\ c.pc = "validate"
    /\ Apply(p, AfterValidate(SawValidation(c, ok), ok, contentDirectoryHandle), handles)
    /\ lastPicked' = StillPicked(lastPicked, contentDirectoryHandle', perm, enumerable)
    /\ UNCHANGED <<nameVars, listVars, fileVars, env, dbState, perm, enumerable, ncalls>>

\* cleanupRevokedPermissions: clearStoredDirectoryHandle settles, errors swallowed
Cleanup(p) ==
    LET c == Connected([call[p] EXCEPT !.clears = @ + 1], Opens, ReadCloses) IN
    /\ c.pc = "clear"
    /\ Apply(p, AfterCleanup(c, ClearSucceeds, contentDirectoryHandle), StoredAfterClear)
    /\ dbState' = DbAfterInit
    /\ UNCHANGED <<nameVars, listVars, fileVars, env, perm, enumerable, ncalls, lastPicked>>

\* getStoredDirectoryHandle settles
GetStored(p) ==
    LET c == Connected([call[p] EXCEPT !.reads = @ + 1, !.readHeld = stored,
                                       !.readResult = IF StoredRead = Null THEN "null"
                                                      ELSE "handle"],
                       Opens, ReadCloses) IN
    /\ c.pc = "get"
    /\ Apply(p, AfterGetStored(c, StoredRead, contentDirectoryHandle), handles)
    /\ dbState' = DbAfterInit
    /\ UNCHANGED <<nameVars, listVars, fileVars, env, perm, enumerable, ncalls, lastPicked>>

\* window.showDirectoryPicker settles
Picker(p) ==
    LET c == [call[p] EXCEPT !.picks = @ + 1] IN
    /\ c.pc = "picker"
    /\ IF ~hasShowDirectoryPicker
       THEN Apply(p, Out(Acquire_Catch([c EXCEPT !.pick = "TypeError"], "TypeError",
                                       MsgNoPicker),
                         contentDirectoryHandle), handles)
       ELSE IF ~c.gesture
       THEN Apply(p, Out(Acquire_Catch([c EXCEPT !.pick = "SecurityError"], "SecurityError",
                                       MsgSecurity),
                         contentDirectoryHandle), handles)
       ELSE IF c.pick = "busy"
       THEN Apply(p, Out(Acquire_Catch([c EXCEPT !.pick = "NotAllowedError"],
                                       "NotAllowedError", MsgPickerActive),
                         contentDirectoryHandle), handles)
       ELSE \/ Apply(p, Out(Acquire_Catch([c EXCEPT !.pick = "AbortError", !.shown = TRUE],
                                          "AbortError", MsgAbort),
                            contentDirectoryHandle), handles)
            \/ \E item \in Items :
                  Apply(p, Out(Acquire_AfterPicker([c EXCEPT !.pick = "item", !.shown = TRUE],
                                                   item),
                               contentDirectoryHandle), handles)
    /\ UNCHANGED <<nameVars, listVars, fileVars, env, dbState, perm, enumerable, ncalls, lastPicked>>

\* the number of the next put to commit (bookkeeping)
PutNumber ==
    1 + CHOOSE n \in 0..MaxCalls :
            /\ \A q \in Procs : call[q].putAt <= n
            /\ \E q \in Procs : call[q].putAt = n

\* storeDirectoryHandle settles: the put commits, or the call throws
StoreHandle(p) ==
    LET c == Connected([call[p] EXCEPT !.puts = @ + 1, !.putAt = PutNumber],
                       Opens, StoreCloses) IN
    /\ c.pc = "put"
    /\ IF StoreSucceeds(c.h)
       THEN Apply(p, AfterStore(c, TRUE, contentDirectoryHandle),
                  Put(handles, c.h, DIRECTORY_HANDLE_KEY))
       ELSE Apply(p, AfterStore(c, FALSE, contentDirectoryHandle), handles)
    /\ dbState' = DbAfterInit
    /\ UNCHANGED <<nameVars, listVars, fileVars, env, perm, enumerable, ncalls, lastPicked>>

\* contentDirectoryHandle = handle; return contentDirectoryHandle
CacheHandle(p) ==
    LET c == call[p] IN
    /\ c.pc = "cache"
    \* the complete events of two puts are dispatched in the order of the commits
    /\ \A q \in Procs \ {p} : call[q].pc = "cache" => call[q].putAt > c.putAt
    /\ Apply(p, Acquire_AfterStore(c), handles)
    /\ lastPicked' = StillPicked(<<c.h, ncalls>>, contentDirectoryHandle', perm, enumerable)
    /\ UNCHANGED <<nameVars, listVars, fileVars, env, dbState, perm, enumerable, ncalls>>

\* the user or the browser revokes the grant of h, out of band
Revoke(h) ==
    /\ perm[h] = "granted"
    /\ \E np \in {"prompt", "denied"} : perm' = [perm EXCEPT ![h] = np]
    /\ lastPicked' = StillPicked(lastPicked, contentDirectoryHandle, perm', enumerable)
    /\ UNCHANGED <<nameVars, listVars, fileVars, env, dbState, enumerable, contentDirectoryHandle,
                   handles, call, ncalls>>

\* the directory of h is deleted or moved on disk
DeleteDirectory(h) ==
    /\ enumerable[h]
    /\ enumerable' = [enumerable EXCEPT ![h] = FALSE]
    /\ lastPicked' = StillPicked(lastPicked, contentDirectoryHandle, perm, enumerable')
    /\ UNCHANGED <<nameVars, listVars, fileVars, env, dbState, perm, contentDirectoryHandle,
                   handles, call, ncalls>>

\* the steps of getContentDirectoryHandle and isDirectoryAccessConfigured
AcquisitionStep(p) ==
    \/ QueryPermission(p)
    \/ RequestPermission(p)
    \/ Validate(p)
    \/ Cleanup(p)
    \/ GetStored(p)
    \/ Picker(p)
    \/ StoreHandle(p)
    \/ CacheHandle(p)

Step(p) ==
    \/ StartAcquire(p)
    \/ StartProbe(p)
    \/ StartReset(p)
    \/ ResetOpen(p)
    \/ AcquisitionStep(p)

Environment ==
    \/ \E h \in Handles : Revoke(h)
    \/ \E h \in Handles : DeleteDirectory(h)

Init ==
    /\ hasShowDirectoryPicker \in BOOLEAN
    /\ hasShowOpenFilePicker \in BOOLEAN
    /\ dbOk \in BOOLEAN
    /\ perm \in [Handles -> PermStates]
    /\ enumerable \in [Handles -> BOOLEAN]
    /\ contentDirectoryHandle = Null
    /\ handles \in {Holding(v) : v \in Handles \cup {Null}}
    /\ ~hasShowDirectoryPicker => stored = Null
    /\ dbState \in {"absent", "nostore", "ready"}
    /\ dbState # "ready" => stored = Null
    /\ call = [p \in Procs |-> IdleCall]
    /\ ncalls = 0
    /\ lastPicked = <<Null, 0>>
    /\ filename = Str(<<>>)
    /\ normalized = Unapplied
    /\ renormalized = Unapplied
    /\ files = [h \in Handles |-> [n \in FileNames |-> NoFile]]
    /\ entries = <<>>

\* One call in flight at a time, each call one step per await; the platform
\* may revoke a grant or lose a directory between any two steps.  Whether the
\* storage engine works is fixed for the session (a record persisted by an
\* earlier session may sit behind an engine that now fails to open).
Next == Step(MainTask) \/ Environment

Spec == Init /\ [][Next]_vars

\* ensureMarkdownExtension is applied to a file name
Normalize ==
    /\ normalized = Unapplied
    /\ normalized' = ensureMarkdownExtension(filename)
    /\ UNCHANGED <<filename, renormalized, sessionVars, fileVars, listVars>>

\* ensureMarkdownExtension is applied to the name it returned
Renormalize ==
    /\ normalized.ok
    /\ renormalized = Unapplied
    /\ renormalized' = ensureMarkdownExtension(Str(normalized.name))
    /\ UNCHANGED <<filename, normalized, sessionVars, fileVars, listVars>>

\* a page with no directory session under way
SessionAtRest ==
    /\ hasShowDirectoryPicker = TRUE
    /\ hasShowOpenFilePicker = TRUE
    /\ dbOk = TRUE
    /\ perm = [h \in Handles |-> "prompt"]
    /\ enumerable = [h \in Handles |-> TRUE]
    /\ contentDirectoryHandle = Null
    /\ handles = Holding(Null)
    /\ dbState = "absent"
    /\ call = [p \in Procs |-> IdleCall]
    /\ ncalls = 0
    /\ lastPicked = <<Null, 0>>
    /\ files = [h \in Handles |-> [n \in FileNames |-> NoFile]]
    /\ entries = <<>>

InitName ==
    /\ SessionAtRest
    /\ filename \in JsValues
    /\ normalized = Unapplied
    /\ renormalized = Unapplied

NextName == Normalize \/ Renormalize

\* ensureMarkdownExtension as a function of its argument: every value of a
\* bounded set of file names, normalized and normalized again
SpecName == InitName /\ [][NextName]_vars

----------------------------------------------------------------------------
(* The exports of indexedDB.js, called directly *)

\* a direct call: what the task's earlier direct calls have put since the
\* last clear, and how its previous call ended, are kept (bookkeeping)
BeginStoreCall(p, op) ==
    [Begin(op, FALSE) EXCEPT !.log = call[p].log, !.prev = call[p].op,
                             !.prevErr = call[p].err]

StartStoreCall(p) ==
    /\ Idle(p)
    /\ ncalls < MaxStoreCalls
    /\ \E h \in Items \cup {Null} :
          Apply(p, Out(Store_Start([BeginStoreCall(p, "store") EXCEPT !.h = h]),
                       contentDirectoryHandle), handles)
    /\ ncalls' = ncalls + 1
    /\ UNCHANGED <<nameVars, listVars, fileVars, env, dbState, perm, enumerable, lastPicked>>

StartGetCall(p) ==
    /\ Idle(p)
    /\ ncalls < MaxStoreCalls
    /\ Apply(p, Out(CallGetStored(BeginStoreCall(p, "get")), contentDirectoryHandle), handles)
    /\ ncalls' = ncalls + 1
    /\ UNCHANGED <<nameVars, listVars, fileVars, env, dbState, perm, enumerable, lastPicked>>

StartClearCall(p) ==
    /\ Idle(p)
    /\ ncalls < MaxStoreCalls
    /\ Apply(p, Out(CallCleanup(BeginStoreCall(p, "clear")), contentDirectoryHandle), handles)
    /\ ncalls' = ncalls + 1
    /\ UNCHANGED <<nameVars, listVars, fileVars, env, dbState, perm, enumerable, lastPicked>>

StoreCallStep(p) ==
    \/ StartStoreCall(p)
    \/ StartGetCall(p)
    \/ StartClearCall(p)
    \/ StoreHandle(p)
    \/ GetStored(p)
    \/ Cleanup(p)

\* a page at rest over any database: none yet, one without the 'handles'
\* store, or one whose store holds nothing, a directory handle or another
\* value; the engine opens or fails for the whole session
InitStore ==
    /\ hasShowDirectoryPicker = TRUE
    /\ hasShowOpenFilePicker = TRUE
    /\ dbOk \in BOOLEAN
    /\ perm = [h \in Handles |-> "prompt"]
    /\ enumerable = [h \in Handles |-> TRUE]
    /\ contentDirectoryHandle = Null
    /\ handles \in {Holding(v) : v \in Items \cup {Null}}
    /\ dbState \in {"absent", "nostore", "ready"}
    /\ dbState # "ready" => stored = Null
    /\ call = [p \in Procs |-> IdleCall]
    /\ ncalls = 0
    /\ lastPicked = <<Null, 0>>
    /\ filename = Str(<<>>)
    /\ normalized = Unapplied
    /\ renormalized = Unapplied
    /\ files = [h \in Handles |-> [n \in FileNames |-> NoFile]]
    /\ entries = <<>>

NextStore == StoreCallStep(MainTask)

\* storeDirectoryHandle, getStoredDirectoryHandle and
\* clearStoredDirectoryHandle called one after another
SpecStore == InitStore /\ [][NextStore]_vars

----------------------------------------------------------------------------
(* Directory Session calls in flight together *)

\* a page that is being loaded again: both pickers, a working handle store
\* that holds nothing or directory 1, an empty cache, and the permission of
\* every directory still granted or back to 'prompt'
InitSession ==
    /\ hasShowDirectoryPicker = TRUE
    /\ hasShowOpenFilePicker = TRUE
    /\ dbOk = TRUE
    /\ \E st \in {"granted", "prompt"} : perm = [h \in Handles |-> st]
    /\ enumerable = [h \in Handles |-> TRUE]
    /\ contentDirectoryHandle = Null
    /\ handles \in {Holding(v) : v \in {Null, 1}}
    /\ dbState \in {"nostore", "ready"}
    /\ dbState # "ready" => stored = Null
    /\ call = [p \in Procs |-> IdleCall]
    /\ ncalls = 0
    /\ lastPicked = <<Null, 0>>
    /\ filename = Str(<<>>)
    /\ normalized = Unapplied
    /\ renormalized = Unapplied
    /\ files = [h \in Handles |-> [n \in FileNames |-> NoFile]]
    /\ entries = <<>>

NextSession == \E p \in Procs : Step(p)

\* getContentDirectoryHandle, isDirectoryAccessConfigured and
\* resetDirectoryAccess calls of two tasks, their steps interleaved
SpecSession == InitSession /\ [][NextSession]_vars

----------------------------------------------------------------------------
(* writeContentFile, step by step *)

StartWrite(p) ==
    /\ Idle(p)
    /\ ncalls < MaxCalls
    /\ \E g \in BOOLEAN, f \in NameArgs, d \in ContentArgs, force \in BOOLEAN :
          Apply(p, Write_Start([Begin("write", g) EXCEPT !.file = f, !.content = d.text,
                                                        !.contentType = d.type,
                                                        !.force = force],
                               contentDirectoryHandle), handles)
    /\ ncalls' = ncalls + 1
    /\ UNCHANGED <<nameVars, listVars, env, dbState, perm, enumerable, lastPicked, files>>

\* await getContentDirectoryHandle() settles inside writeContentFile
WriteAfterAcquire(p) ==
    LET c == call[p] IN
    /\ c.op = "acquire" /\ c.pc = "done"
    /\ c.outer # <<>> /\ Head(c.outer) = "write"
    /\ Apply(p, Out(Write_AfterAcquire(c), contentDirectoryHandle), handles)
    /\ UNCHANGED <<nameVars, listVars, env, dbState, perm, enumerable, ncalls, lastPicked, files>>

\* checkFileExists settles: getFileHandle(name) resolves, rejects with
\* NotFoundError, or rejects with another error, which is rethrown
CheckExists(p) ==
    LET c == [call[p] EXCEPT !.before = files[call[p].dir][call[p].validFilename]] IN
    /\ call[p].pc = "exists"
    /\ \/ Apply(p, Out(Write_AfterExists(c, c.before.exists), contentDirectoryHandle),
                 handles)
       \/ Apply(p, Out(Write_Catch(c, MsgPlatform), contentDirectoryHandle), handles)
    /\ UNCHANGED <<nameVars, listVars, env, dbState, perm, enumerable, ncalls, lastPicked, files>>

\* a click while the overwrite modal is attached to the document; a click
\* that resolves the promise resumes writeContentFile with shouldOverwrite
ConfirmOverwrite(p) ==
    /\ call[p].modal
    /\ \E target \in ClickTargets :
          LET c == call[p]
              d == Confirm_OnClick(c, target) IN
          IF c.pc = "confirm" /\ d.resolutions > c.resolutions
          THEN Apply(p, Out(Write_AfterConfirm(d, d.agreed), contentDirectoryHandle),
                     handles)
          ELSE Apply(p, Out(d, contentDirectoryHandle), handles)
    /\ UNCHANGED <<nameVars, listVars, env, dbState, perm, enumerable, ncalls, lastPicked, files>>

\* getFileHandle(name, { create: true }) settles: a file that does not exist
\* is created empty
GetFileHandle(p) ==
    LET c == call[p]
        f == files[c.dir][c.validFilename] IN
    /\ c.pc = "create"
    /\ \/ /\ Apply(p, Out([c EXCEPT !.pc = "writable", !.created = ~f.exists],
                          contentDirectoryHandle), handles)
          /\ files' = IF f.exists THEN files
                      ELSE [files EXCEPT ![c.dir][c.validFilename] = File("")]
       \/ /\ Apply(p, Out(Write_Catch(c, MsgPlatform), contentDirectoryHandle), handles)
          /\ UNCHANGED files
    /\ UNCHANGED <<nameVars, listVars, env, dbState, perm, enumerable, ncalls, lastPicked>>

\* fileHandle.createWritable() settles: the stream writes to a swap file
CreateWritable(p) ==
    LET c == call[p] IN
    /\ c.pc = "writable"
    /\ \/ Apply(p, Out([c EXCEPT !.pc = "write", !.streams = @ + 1, !.swap = ""],
                       contentDirectoryHandle), handles)
       \/ Apply(p, Out(Write_Catch(c, MsgPlatform), contentDirectoryHandle), handles)
    /\ UNCHANGED <<nameVars, listVars, env, dbState, perm, enumerable, ncalls, lastPicked, files>>

\* writable.write(content) settles
WriteStream(p) ==
    LET c == call[p] IN
    /\ c.pc = "write"
    /\ \/ Apply(p, Out([c EXCEPT !.pc = "close", !.swap = c.content],
                       contentDirectoryHandle), handles)
       \/ Apply(p, Out(Write_Catch(c, MsgPlatform), contentDirectoryHandle), handles)
    /\ UNCHANGED <<nameVars, listVars, env, dbState, perm, enumerable, ncalls, lastPicked, files>>

\* the file a write call is about, once the call has a directory and a name
Target(c) == files[c.dir][c.validFilename]

\* writable.close() settles: the swap file replaces the file, or nothing changes
CloseStream(p) ==
    LET c == call[p] IN
    /\ c.pc = "close"
    /\ \/ /\ Apply(p, Out(Write_AfterClose([c EXCEPT !.closedAt = CommitNumber,
                                                     !.replaced = Target(c)]),
                          contentDirectoryHandle), handles)
          /\ files' = Commit(files, c.dir, c.validFilename, c.swap)
       \/ /\ Apply(p, Out(Write_Catch(c, MsgPlatform), contentDirectoryHandle), handles)
          /\ UNCHANGED files
    /\ UNCHANGED <<nameVars, listVars, env, dbState, perm, enumerable, ncalls, lastPicked>>

\* the steps of writeContentFile after its entry
WriteProgress(p) ==
    \/ WriteAfterAcquire(p)
    \/ CheckExists(p)
    \/ ConfirmOverwrite(p)
    \/ GetFileHandle(p)
    \/ CreateWritable(p)
    \/ WriteStream(p)
    \/ CloseStream(p)

WriteStep(p) == StartWrite(p) \/ WriteProgress(p)

\* a page whose directories exist and share one permission state, with the
\* handle store created, holding nothing or directory 1; every directory
\* has the file n.md or not
InitWrite ==
    /\ hasShowDirectoryPicker \in BOOLEAN
    /\ hasShowOpenFilePicker = hasShowDirectoryPicker
    /\ dbOk \in BOOLEAN
    /\ \E st \in PermStates : perm = [h \in Handles |-> st]
    /\ enumerable = [h \in Handles |-> TRUE]
    /\ contentDirectoryHandle = Null
    /\ handles \in {Holding(v) : v \in {Null, 1}}
    /\ ~hasShowDirectoryPicker => stored = Null
    /\ dbState = "ready"
    /\ call = [p \in Procs |-> IdleCall]
    /\ ncalls = 0
    /\ lastPicked = <<Null, 0>>
    /\ filename = Str(<<>>)
    /\ normalized = Unapplied
    /\ renormalized = Unapplied
    /\ \E f \in {NoFile, File(OldContent)} :
          files = [h \in Handles |->
                      [n \in FileNames |-> IF n = <<"n", ".", "m", "d">> THEN f ELSE NoFile]]
    /\ entries = <<>>

NextWrite == AcquisitionStep(MainTask) \/ WriteStep(MainTask)

\* writeContentFile calls, one at a time, each acquiring the directory first
SpecWrite == InitWrite /\ [][NextWrite]_vars

----------------------------------------------------------------------------
(* Two writeContentFile calls in flight at once *)

\* what each task writes, and the two spellings of the one name written
RaceContent(p) == IF p = MainTask THEN "# v2" ELSE "# v3"
RaceNames == {Str(<<" ", "n">>), Str(<<"n", ".", "m", "d">>)}

\* a task that has made no call yet calls writeContentFile
StartRaceWrite(p) ==
    /\ call[p].pc = "idle"
    /\ ncalls < MaxCalls
    /\ \E f \in RaceNames, force \in BOOLEAN :
          Apply(p, Write_Start([Begin("write", TRUE) EXCEPT !.file = f,
                                                        !.content = RaceContent(p),
                                                        !.force = force],
                               contentDirectoryHandle), handles)
    /\ ncalls' = ncalls + 1
    /\ UNCHANGED <<nameVars, listVars, env, dbState, perm, enumerable, lastPicked, files>>

\* a freshly loaded page of a configured installation: both pickers, a
\* working handle store that holds directory 1, permission still granted;
\* the directory has the file n.md or not
InitRace ==
    /\ hasShowDirectoryPicker = TRUE
    /\ hasShowOpenFilePicker = TRUE
    /\ dbOk = TRUE
    /\ perm = [h \in Handles |-> "granted"]
    /\ enumerable = [h \in Handles |-> TRUE]
    /\ contentDirectoryHandle = Null
    /\ handles = Holding(1)
    /\ dbState = "ready"
    /\ call = [p \in Procs |-> IdleCall]
    /\ ncalls = 0
    /\ lastPicked = <<Null, 0>>
    /\ filename = Str(<<>>)
    /\ normalized = Unapplied
    /\ renormalized = Unapplied
    /\ \E f \in {NoFile, File(OldContent)} :
          files = [h \in Handles |->
                      [n \in FileNames |-> IF n = <<"n", ".", "m", "d">> THEN f ELSE NoFile]]
    /\ entries = <<>>

\* with the stored handle granted and enumerable an acquisition is the read
\* of the store (or the cache) and the two gates
RaceStep(p) ==
    \/ StartRaceWrite(p)
    \/ GetStored(p)
    \/ QueryPermission(p)
    \/ Validate(p)
    \/ WriteProgress(p)

NextRace == \E p \in Procs : RaceStep(p)

\* two tasks, one writeContentFile call each, their steps interleaved in
\* every order
SpecRace == InitRace /\ [][NextRace]_vars

----------------------------------------------------------------------------
(* readContentFile, step by step *)

StartRead(p) ==
    /\ Idle(p)
    /\ ncalls < MaxCalls
    /\ \E g \in BOOLEAN, f \in NameArgs :
          Apply(p, Read_Start([Begin("read", g) EXCEPT !.file = f],
                              contentDirectoryHandle), handles)
    /\ ncalls' = ncalls + 1
    /\ UNCHANGED <<nameVars, listVars, env, dbState, perm, enumerable, lastPicked, files>>

\* await getContentDirectoryHandle() settles inside readContentFile
ReadAfterAcquire(p) ==
    LET c == call[p] IN
    /\ c.op = "acquire" /\ c.pc = "done"
    /\ c.outer # <<>> /\ Head(c.outer) = "read"
    /\ Apply(p, Out(Read_AfterAcquire(c), contentDirectoryHandle), handles)
    /\ UNCHANGED <<nameVars, listVars, env, dbState, perm, enumerable, ncalls, lastPicked, files>>

\* getFileHandle(name) settles: the entry is resolved, or the platform
\* rejects for a reason of its own
ReadGetFileHandle(p) ==
    /\ call[p].op = "read" /\ call[p].pc = "resolve"
    /\ \/ Apply(p, Out(Read_AfterGetFileHandle(call[p],
                           files[call[p].dir][call[p].validFilename]),
                       contentDirectoryHandle), handles)
       \/ Apply(p, Out(Read_Catch([call[p] EXCEPT !.lookup = "failed"],
                                  "NotAllowedError", MsgPlatform),
                       contentDirectoryHandle), handles)
    /\ UNCHANGED <<nameVars, listVars, env, dbState, perm, enumerable, ncalls, lastPicked, files>>

\* fileHandle.getFile() settles
ReadGetFile(p) ==
    /\ call[p].op = "read" /\ call[p].pc = "getfile"
    /\ \/ Apply(p, Out(Read_AfterGetFile(call[p],
                           files[call[p].dir][call[p].validFilename]),
                       contentDirectoryHandle), handles)
       \/ Apply(p, Out(Read_Catch(call[p], "NotAllowedError", MsgPlatform),
                       contentDirectoryHandle), handles)
    /\ UNCHANGED <<nameVars, listVars, env, dbState, perm, enumerable, ncalls, lastPicked, files>>

\* file.text() settles: the snapshot's bytes, unless the file has changed
\* since the snapshot was taken (NotReadableError)
ReadText(p) ==
    LET c == call[p] IN
    /\ c.op = "read" /\ c.pc = "text"
    /\ IF files[c.dir][c.validFilename] = c.snapshot
       THEN \/ Apply(p, Out(Read_AfterText(c, c.snapshot.data), contentDirectoryHandle),
                     handles)
            \/ Apply(p, Out(Read_Catch(c, "NotReadableError", MsgPlatform),
                            contentDirectoryHandle), handles)
       ELSE Apply(p, Out(Read_Catch(c, "NotReadableError", MsgPlatform),
                         contentDirectoryHandle), handles)
    /\ UNCHANGED <<nameVars, listVars, env, dbState, perm, enumerable, ncalls, lastPicked, files>>

ReadStep(p) ==
    \/ StartRead(p)
    \/ ReadAfterAcquire(p)
    \/ ReadGetFileHandle(p)
    \/ ReadGetFile(p)
    \/ ReadText(p)

NextRead == AcquisitionStep(MainTask) \/ WriteStep(MainTask) \/ ReadStep(MainTask)

\* readContentFile and writeContentFile calls, one at a time
SpecRead == InitWrite /\ [][NextRead]_vars

----------------------------------------------------------------------------
(* listContentFiles, step by step *)

StartList(p) ==
    /\ Idle(p)
    /\ ncalls < MaxCalls
    /\ \E g \in BOOLEAN :
          Apply(p, List_Start(Begin("list", g), contentDirectoryHandle), handles)
    /\ ncalls' = ncalls + 1
    /\ UNCHANGED <<nameVars, listVars, env, dbState, perm, enumerable, lastPicked, files>>

\* await getContentDirectoryHandle() settles inside listContentFiles
ListAfterAcquire(p) ==
    LET c == call[p] IN
    /\ c.op = "acquire" /\ c.pc = "done"
    /\ c.outer # <<>> /\ Head(c.outer) = "list"
    /\ Apply(p, Out(List_AfterAcquire(c), contentDirectoryHandle), handles)
    /\ UNCHANGED <<nameVars, listVars, env, dbState, perm, enumerable, ncalls, lastPicked, files>>

\* the iteration of directoryHandle.entries() ends, or one of its steps rejects
ListEntries(p) ==
    /\ call[p].op = "list" /\ call[p].pc = "entries"
    /\ \/ Apply(p, Out(List_AfterEntries([call[p] EXCEPT !.lookup = "found"],
                                         Enumeration(call[p].dir)),
                       contentDirectoryHandle), handles)
       \/ Apply(p, Out(List_Catch([call[p] EXCEPT !.lookup = "failed"], MsgPlatform),
                       contentDirectoryHandle), handles)
    /\ UNCHANGED <<nameVars, listVars, env, dbState, perm, enumerable, ncalls, lastPicked, files>>

\* the steps of listContentFiles after its entry
ListProgress(p) == ListAfterAcquire(p) \/ ListEntries(p)

ListStep(p) == StartList(p) \/ ListProgress(p)

\* a page with both pickers, a working handle store holding nothing or
\* directory 1, one permission state for every directory, and a content
\* directory that holds any enumeration of entries
InitList ==
    /\ hasShowDirectoryPicker = TRUE
    /\ hasShowOpenFilePicker = TRUE
    /\ dbOk = TRUE
    /\ \E st \in PermStates : perm = [h \in Handles |-> st]
    /\ enumerable = [h \in Handles |-> TRUE]
    /\ contentDirectoryHandle = Null
    /\ handles \in {Holding(v) : v \in {Null, 1}}
    /\ dbState = "ready"
    /\ call = [p \in Procs |-> IdleCall]
    /\ ncalls = 0
    /\ lastPicked = <<Null, 0>>
    /\ filename = Str(<<>>)
    /\ normalized = Unapplied
    /\ renormalized = Unapplied
    /\ files = [h \in Handles |-> [n \in FileNames |-> NoFile]]
    /\ entries \in Enumerations

NextList == AcquisitionStep(MainTask) \/ ListStep(MainTask)

\* listContentFiles calls, one at a time, over every enumeration
SpecList == InitList /\ [][NextList]_vars

NextFiles ==
    \/ AcquisitionStep(MainTask)
    \/ WriteStep(MainTask)
    \/ ReadStep(MainTask)
    \/ ListStep(MainTask)

\* writeContentFile, readContentFile and listContentFiles calls, one at a
\* time, the later ones finding what the earlier ones cached and stored
SpecFiles == InitWrite /\ [][NextFiles]_vars

----------------------------------------------------------------------------
(* The click handlers of Onboarding.jsx and Sidebar.jsx *)

SidebarHandlers == {"save", "create"}
\* the file a Sidebar handler writes: slug + '.md' and the generated markdown
UiFile == Str(<<"n", ".", "m", "d">>)
UiContent == "# v2"

\* a call entered from inside handler code: a fresh record of the inner call
\* that keeps the handler's frame
Enter(c, op) ==
    [Begin(op, c.gesture) EXCEPT !.ui = c.ui, !.stage = c.stage, !.foreign = c.foreign]

\* the handler has returned (its try, catch and finally blocks are over)
HandlerDone(c) == [c EXCEPT !.op = c.ui, !.pc = "done", !.outer = <<>>]

\* writeContentFile(slug + '.md', markdownContent) entered from a Sidebar handler
Handler_Write(c, cache) ==
    Write_Start([Enter(c, "write") EXCEPT !.outer = <<c.ui>>, !.stage = "write",
                                          !.file = UiFile, !.content = UiContent], cache)

\* handleSaveCurrent / handleCreateDocument after the timer, or with the
\* directory configured: Create Document writes; Save Current first awaits
\* the editor's answer to 'llmcms:get-current-content'
Handler_Proceed(c, cache) ==
    IF c.ui = "save" THEN Out([c EXCEPT !.op = c.ui, !.pc = "editor"], cache)
    ELSE Handler_Write(c, cache)

\* a Sidebar handler resumed with isConfigured (c is the settled probe)
Handler_AfterProbe(c, cache) ==
    IF ~c.answer THEN Out([c EXCEPT !.op = c.ui, !.pc = "timer"], cache)
    ELSE Handler_Proceed(c, cache)

\* handleSelectFolder: the click on Onboarding's select-folder button
StartSelectFolder(p) ==
    LET c == [Begin("acquire", TRUE) EXCEPT !.ui = "select", !.outer = <<"select">>] IN
    /\ Idle(p)
    /\ ncalls < MaxCalls
    /\ IF isFileSystemAccessSupported
       THEN Apply(p, Acquire_Start(c, contentDirectoryHandle), handles)
       ELSE Apply(p, Out(HandlerDone(c), contentDirectoryHandle), handles)
    /\ ncalls' = ncalls + 1
    /\ UNCHANGED <<nameVars, listVars, env, dbState, perm, enumerable, lastPicked, files>>

\* handleSelectFolder resumed when getContentDirectoryHandle has settled
SelectFolderAfterAcquire(p) ==
    LET c == call[p] IN
    /\ c.op = "acquire" /\ c.pc = "done"
    /\ c.outer # <<>> /\ Head(c.outer) = "select"
    /\ Apply(p, Out(HandlerDone(c), contentDirectoryHandle), handles)
    /\ UNCHANGED <<nameVars, listVars, env, dbState, perm, enumerable, ncalls, lastPicked, files>>

\* handleSaveCurrent / handleCreateDocument: the click, the support check and
\* the entry of isDirectoryAccessConfigured (Create Document returns at once
\* when the title is blank)
StartSidebarWrite(p) ==
    /\ Idle(p)
    /\ ncalls < MaxCalls
    /\ \E h \in SidebarHandlers, titled \in BOOLEAN :
          LET c == [Begin("probe", TRUE) EXCEPT !.ui = h, !.outer = <<h>>,
                                               !.stage = "configured"] IN
          /\ h = "save" => titled
          /\ IF titled /\ isFileSystemAccessSupported
             THEN Apply(p, Probe_Start(c, contentDirectoryHandle), handles)
             ELSE Apply(p, Out(HandlerDone(c), contentDirectoryHandle), handles)
    /\ ncalls' = ncalls + 1
    /\ UNCHANGED <<nameVars, listVars, env, dbState, perm, enumerable, lastPicked, files>>

\* await isDirectoryAccessConfigured() settles in a Sidebar handler
HandlerAfterProbe(p) ==
    LET c == call[p] IN
    /\ c.op = "probe" /\ c.pc = "done" /\ c.stage = "configured"
    /\ c.outer # <<>> /\ Head(c.outer) \in SidebarHandlers
    /\ Apply(p, Handler_AfterProbe(c, contentDirectoryHandle), handles)
    /\ UNCHANGED <<nameVars, listVars, env, dbState, perm, enumerable, ncalls, lastPicked, files>>

\* await new Promise(resolve => setTimeout(resolve, 1000)) settles; the
\* click's transient activation may have expired meanwhile
HandlerTimer(p) ==
    LET c == call[p] IN
    /\ c.pc = "timer"
    /\ \E g \in {c.gesture, FALSE} :
          Apply(p, Handler_Proceed([c EXCEPT !.foreign = @ + 1, !.gesture = g],
                                   contentDirectoryHandle), handles)
    /\ UNCHANGED <<nameVars, listVars, env, dbState, perm, enumerable, ncalls, lastPicked, files>>

\* await contentPromise settles in handleSaveCurrent: the editor answers with
\* a document, or there is no document or no answer within 5 s
HandlerEditor(p) ==
    LET c == call[p] IN
    /\ c.pc = "editor"
    /\ \E g \in {c.gesture, FALSE}, loaded \in BOOLEAN :
          LET d == [c EXCEPT !.foreign = @ + 1, !.gesture = g] IN
          IF loaded THEN Apply(p, Handler_Write(d, contentDirectoryHandle), handles)
          ELSE Apply(p, Out(HandlerDone(d), contentDirectoryHandle), handles)
    /\ UNCHANGED <<nameVars, listVars, env, dbState, perm, enumerable, ncalls, lastPicked, files>>

\* await writeContentFile(...) settles in a Sidebar handler: after a write
\* that succeeded, refreshFileList enters isDirectoryAccessConfigured again
HandlerAfterWrite(p) ==
    LET c == call[p] IN
    /\ c.op = "write" /\ c.pc = "done"
    /\ c.outer # <<>> /\ Head(c.outer) \in SidebarHandlers
    /\ IF c.success /\ isFileSystemAccessSupported
       THEN Apply(p, Probe_Start([Enter(c, "probe") EXCEPT !.outer = c.outer,
                                                          !.stage = "refresh"],
                                 contentDirectoryHandle), handles)
       ELSE Apply(p, Out(HandlerDone(c), contentDirectoryHandle), handles)
    /\ UNCHANGED <<nameVars, listVars, env, dbState, perm, enumerable, ncalls, lastPicked, files>>

\* loadContentFiles resumed with isConfigured: listContentFiles is entered
RefreshAfterProbe(p) ==
    LET c == call[p] IN
    /\ c.op = "probe" /\ c.pc = "done" /\ c.stage = "refresh"
    /\ c.outer # <<>> /\ Head(c.outer) \in SidebarHandlers
    /\ IF c.answer
       THEN Apply(p, List_Start([Enter(c, "list") EXCEPT !.outer = c.outer],
                                contentDirectoryHandle), handles)
       ELSE Apply(p, Out(HandlerDone(c), contentDirectoryHandle), handles)
    /\ UNCHANGED <<nameVars, listVars, env, dbState, perm, enumerable, ncalls, lastPicked, files>>

\* loadContentFiles resumed when listContentFiles has settled: the list is
\* kept, or emptied after an error, and the handler returns
HandlerAfterList(p) ==
    LET c == call[p] IN
    /\ c.op = "list" /\ c.pc = "done"
    /\ c.outer # <<>> /\ Head(c.outer) \in SidebarHandlers
    /\ Apply(p, Out(HandlerDone(c), contentDirectoryHandle), handles)
    /\ UNCHANGED <<nameVars, listVars, env, dbState, perm, enumerable, ncalls, lastPicked, files>>

UiStep(p) ==
    \/ StartSelectFolder(p)
    \/ SelectFolderAfterAcquire(p)
    \/ StartSidebarWrite(p)
    \/ HandlerAfterProbe(p)
    \/ HandlerTimer(p)
    \/ HandlerEditor(p)
    \/ HandlerAfterWrite(p)
    \/ RefreshAfterProbe(p)
    \/ HandlerAfterList(p)

NextUi ==
    \/ AcquisitionStep(MainTask)
    \/ WriteProgress(MainTask)
    \/ ListProgress(MainTask)
    \/ UiStep(MainTask)

\* the user clicks Select Folder, Save Current or Create Document, one
\* handler at a time
SpecUi == InitWrite /\ [][NextUi]_vars

----------------------------------------------------------------------------
(* Clicks on the Sidebar while a handler is still running *)

\* a handler of task p has been entered and has not returned
HandlerRunning(p) == call[p].ui \in SidebarHandlers /\ ~Idle(p)

\* the isCreating state of Sidebar: set on entry of handleCreateDocument,
\* reset in its finally block
isCreating == \E p \in Procs : call[p].ui = "create" /\ HandlerRunning(p)

\* the buttons of the Sidebar can be clicked: no overwrite modal covers the
\* page and no directory picker is open
SidebarClickable == \A p \in Procs : ~call[p].modal /\ call[p].pc # "picker"

\* a click on Save Current (enabled whenever the API is supported) or on
\* Create Document (disabled while isCreating), by a task that has run no
\* handler yet; while a document is being created the new-document modal
\* stays open and its overlay covers Save Current
StartSidebarClick(p) ==
    /\ call[p].pc = "idle"
    /\ ncalls < MaxCalls
    /\ SidebarClickable
    /\ isFileSystemAccessSupported
    /\ \E h \in SidebarHandlers :
          /\ ~isCreating
          /\ Apply(p, Probe_Start([Begin("probe", TRUE) EXCEPT !.ui = h, !.outer = <<h>>,
                                                               !.stage = "configured"],
                                   contentDirectoryHandle), handles)
    /\ ncalls' = ncalls + 1
    /\ UNCHANGED <<nameVars, listVars, env, dbState, perm, enumerable, lastPicked, files>>

\* on a configured installation a handler never waits for the 1 s timer and
\* an acquisition is the read of the store (or the cache) and the two gates
ClickStep(p) ==
    \/ StartSidebarClick(p)
    \/ GetStored(p)
    \/ QueryPermission(p)
    \/ Validate(p)
    \/ WriteProgress(p)
    \/ ListProgress(p)
    \/ HandlerAfterProbe(p)
    \/ HandlerEditor(p)
    \/ HandlerAfterWrite(p)
    \/ RefreshAfterProbe(p)
    \/ HandlerAfterList(p)

NextClicks == \E p \in Procs : ClickStep(p)

\* two clicks on the Sidebar of a configured installation, the second while
\* the handler of the first may still be running
SpecClicks == InitRace /\ [][NextClicks]_vars

----------------------------------------------------------------------------
(* Claims *)

Acquiring(c) == c.op = "acquire"
Probing(c) == c.op = "probe"
Done(c) == c.pc = "done"
Succeeded(c) == c.pc = "done" /\ c.err = NoError
PickerInvoked(c) == c.pc = "picker" \/ c.picks > 0

\* C1: a getContentDirectoryHandle call that has settled either returned a
\* handle that passed checkDirectoryPermission and validateDirectoryHandle in
\* that same call, or failed with an error and returned nothing.
C1_ReturnsOnlyCheckedHandle ==
    \A p \in Procs :
        LET c == call[p] IN
        (Acquiring(c) /\ Done(c)) =>
            IF c.err = NoError
            THEN c.ret \in Handles /\ c.ret \in c.permOk /\ c.ret \in c.validOk
            ELSE c.ret = Null

C1_Witness ==
    \E p \in Procs :
        Acquiring(call[p]) /\ Succeeded(call[p]) /\ call[p].path = "stored"

\* C2 as claimed: the picker is invoked only after the cached handle (if any)
\* failed a check and the durable store held no record or held one that failed
\* a check.
C2_PickerOnlyWhenStoreEmptyOrFailed ==
    \A p \in Procs :
        LET c == call[p] IN
        (Acquiring(c) /\ PickerInvoked(c)) =>
            /\ c.entryCache = Null \/ c.cachedFailed
            /\ c.reads = 1
            /\ c.readHeld = Null \/ c.storedFailed

\* C2 amended: the picker is invoked only after the cached handle (if any)
\* failed a check and the durable store held no record, could not be read, or
\* held a record that failed a check; a stored record that is read back and
\* passes both checks is returned without the picker.
C2_PickerOnlyAfterCacheAndStore ==
    \A p \in Procs :
        LET c == call[p] IN
        /\ (Acquiring(c) /\ PickerInvoked(c)) =>
              /\ c.entryCache = Null \/ c.cachedFailed
              /\ c.reads = 1
              /\ c.readHeld = Null \/ ~dbOk \/ c.storedFailed
        /\ (Acquiring(c) /\ Done(c) /\ c.readResult = "handle" /\ ~c.storedFailed) =>
              c.picks = 0 /\ c.path = "stored" /\ c.err = NoError

C2_Witness ==
    \E p \in Procs :
        LET c == call[p] IN
        Acquiring(c) /\ c.pc = "picker" /\ c.cachedFailed /\ c.readResult = "null"

\* C3: while the cached handle has not failed a check, getContentDirectoryHandle
\* reads nothing from the durable store, writes nothing to it and does not
\* invoke the picker, and it returns the cached handle.
C3_CacheFirst ==
    \A p \in Procs :
        LET c == call[p] IN
        (Acquiring(c) /\ c.entryCache # Null /\ ~c.cachedFailed) =>
            /\ c.reads = 0 /\ c.puts = 0 /\ c.clears = 0 /\ c.picks = 0
            /\ c.pc \in {"query", "request", "validate", "done"}
            /\ Done(c) => c.err = NoError /\ c.ret = c.entryCache /\ c.path = "cached"

C3_Witness ==
    \E p \in Procs :
        LET c == call[p] IN
        Acquiring(c) /\ Succeeded(c) /\ c.path = "cached" /\ c.ret = c.entryCache

\* C4 as claimed: once the cached handle has failed a check and the call is
\* about to consult the durable store, the cache is empty and the store (when
\* its engine works) no longer holds the failed handle.
C4_CascadeBeforeStoreConsulted ==
    \A p \in Procs :
        LET c == call[p] IN
        (Acquiring(c) /\ c.cachedFailed /\ c.pc = "get" /\ dbOk) =>
            contentDirectoryHandle = Null /\ stored \notin c.failed

\* C5: once the stored handle has failed a check, the call clears the durable
\* store and then invokes the picker: the store is empty when the picker is
\* invoked, and the call does not fail before invoking it.
C5_StoredFailureClearsThenPicks ==
    \A p \in Procs :
        LET c == call[p] IN
        (Acquiring(c) /\ c.storedFailed) =>
            \/ c.pc = "clear" /\ c.picks = 0
            \/ /\ PickerInvoked(c)
               /\ c.s3stored = Null
               /\ c.clears >= 1

C5_Witness ==
    \E p \in Procs :
        LET c == call[p] IN
        /\ Acquiring(c) /\ c.storedFailed /\ c.pc = "picker"
        /\ c.readHeld \in c.permOk /\ ~enumerable[c.readHeld] /\ stored = Null

\* C6: a picked directory that validates and has permission is first persisted,
\* then cached, then returned; afterwards the store and the cache hold it, and
\* a later acquire in the session, with that handle undisturbed, returns it
\* from the cache without the picker.
C6_InteractiveAcquisition ==
    \A p \in Procs :
        LET c == call[p] IN
        /\ (Acquiring(c) /\ c.pc = "put") =>
              c.h \in c.validOk /\ c.h \in c.permOk /\ (dbOk => stored = Null)
        /\ (Acquiring(c) /\ c.pc = "cache") =>
              stored = c.h /\ contentDirectoryHandle = Null
        /\ (Acquiring(c) /\ Done(c) /\ c.path = "picked") =>
              /\ c.err = NoError /\ c.ret = c.h /\ c.puts = 1
              /\ stored = c.h /\ contentDirectoryHandle = c.h
        /\ (Acquiring(c) /\ Done(c) /\ c.ctx = "picked" /\ c.lastGate = "permission"
               /\ c.h \in c.permOk /\ StoreSucceeds(c.h)) =>
              c.path = "picked"
        /\ (Acquiring(c) /\ c.since[1] # Null /\ lastPicked = c.since) =>
              /\ c.picks = 0 /\ c.pc # "picker"
              /\ Done(c) => c.ret = c.since[1] /\ c.path = "cached"

C6_Witness ==
    \E p \in Procs :
        LET c == call[p] IN
        /\ Acquiring(c) /\ Succeeded(c) /\ c.path = "cached"
        /\ c.since[1] # Null /\ lastPicked = c.since /\ stored = c.ret

C8_UnsupportedFailsFast ==
    \A p \in Procs :
        LET c == call[p] IN
        (Acquiring(c) /\ ~isFileSystemAccessSupported) =>
            /\ Done(c) /\ c.err # NoError
            /\ c.reads = 0 /\ c.clears = 0 /\ c.picks = 0

\* C9: isDirectoryAccessConfigured never invokes the directory picker.
C9_ProbeNeverPicks ==
    \A p \in Procs :
        LET c == call[p] IN
        Probing(c) => c.picks = 0 /\ c.pc # "picker" /\ ~c.shown

C9_Witness ==
    \E p \in Procs :
        LET c == call[p] IN
        /\ Probing(c) /\ Done(c) /\ ~c.answer
        /\ c.reads = 1 /\ c.readResult = "null" /\ contentDirectoryHandle = Null

\* C10 as claimed: isDirectoryAccessConfigured issues no interactive request:
\* neither the picker nor requestPermission.
C10_ProbeNonInteractive ==
    \A p \in Procs :
        LET c == call[p] IN
        Probing(c) => c.picks = 0 /\ c.requests = 0 /\ c.pc \notin {"picker", "request"}

Resetting(c) == c.op = "reset"

\* C11: once resetDirectoryAccess has handled the open request of a working
\* storage engine (its promise settled, or left for ever unsettled), the cache
\* is empty and the durable store holds no record.
C11_ResetClearsCacheAndStore ==
    \A p \in Procs :
        LET c == call[p] IN
        (Resetting(c) /\ c.pc \in {"done", "stuck"} /\ dbOk) =>
            contentDirectoryHandle = Null /\ stored = Null

\* C16: getContentDirectoryHandle called without a user gesture, with an
\* empty cache and an empty store, in a browser that has the picker, fails
\* with the platform's SecurityError message (not as a success, and not as
\* an invalid or denied directory); no picker was shown, and the cache and
\* the store are still empty.
C16_NoGestureFailsWithoutPicker ==
    \A p \in Procs :
        LET c == call[p] IN
        (Acquiring(c) /\ Done(c) /\ ~c.gesture /\ hasShowDirectoryPicker
            /\ c.entryCache = Null /\ c.reads = 1 /\ c.readHeld = Null) =>
            /\ c.err = FailedToAccess(MsgSecurity) /\ c.ret = Null
            /\ c.pick = "SecurityError" /\ ~c.shown /\ c.picks = 1
            /\ c.puts = 0 /\ c.clears = 0
            /\ contentDirectoryHandle = Null /\ stored = Null

C16_Witness ==
    \E p \in Procs :
        LET c == call[p] IN
        /\ Acquiring(c) /\ Done(c) /\ ~c.gesture /\ hasShowDirectoryPicker
        /\ c.entryCache = Null /\ c.readHeld = Null /\ c.pick = "SecurityError"
        /\ c.err = FailedToAccess(MsgSecurity)

\* C19 as claimed: when the picked directory has passed validation and the
\* permission check and storeDirectoryHandle has been called, the call ends
\* with the handle cached and returned, whether or not the put succeeded.
C19_StoreFailureStillCaches ==
    \A p \in Procs :
        LET c == call[p] IN
        (Acquiring(c) /\ Done(c) /\ c.ctx = "picked" /\ c.puts = 1
            /\ c.h \in c.validOk /\ c.h \in c.permOk) =>
            c.err = NoError /\ c.ret = c.h /\ contentDirectoryHandle = c.h

\* C20: ensureMarkdownExtension returns the trimmed input, with ".md" appended
\* unless the trimmed input already ends in ".md" ("n", "n.md" and " n " all
\* give "n.md"); it throws an invalid-name error exactly on the empty string,
\* on white space only and on a value that is not a string; applied to its
\* own result it returns that result.
C20_ExtensionNormalization ==
    LET blank == filename.type # "string" \/ trim(filename.chars) = <<>>
        n == normalized.name IN
    /\ normalized # Unapplied =>
          /\ normalized.ok = ~blank
          /\ ~normalized.ok => normalized.err \in {ErrInvalidName, ErrEmptyName}
          /\ normalized.ok =>
                /\ endsWith(n, DotMd)
                /\ n \in {trim(filename.chars), trim(filename.chars) \o DotMd}
                /\ Head(n) \notin Whitespace
                /\ filename.chars \in {<<"n">>, <<"n", ".", "m", "d">>, <<" ", "n", " ">>}
                      => n = <<"n", ".", "m", "d">>
    /\ renormalized # Unapplied => renormalized = normalized

C20_Witness ==
    /\ filename = Str(<<" ", "n", " ">>)
    /\ normalized = Named(<<"n", ".", "m", "d">>)
    /\ renormalized = normalized

Writing(c) == c.op = "write"
Declined(c) == c.asked > 0 /\ c.pc = "done" /\ ~c.agreed /\ c.streams = 0 /\ ~c.success

\* C12: a write to a file that exists, without force, asks the Conflict
\* Resolver once, while the file is still as the existence check found it and
\* no stream is open; a declined write ends with the file unchanged and no
\* stream ever opened; an accepted write that completes leaves the file
\* holding exactly the new content.
C12_OverwriteGate ==
    \A p \in Procs :
        LET c == call[p] IN
        /\ (Writing(c) /\ c.fileExists /\ ~c.force) =>
              /\ c.asked = 1
              /\ c.pc = "confirm" => Target(c) = c.before /\ c.streams = 0 /\ ~c.created
              /\ c.pc \in {"create", "writable", "write", "close"} => c.agreed
              /\ (c.streams > 0 \/ c.success) => c.agreed
              /\ Declined(c) =>
                    Target(c) = c.before /\ c.streams = 0 /\ c.err = ErrWriteCancelled
              /\ c.success => Target(c) = File(c.content)
        /\ Writing(c) => c.asked <= 1

C12_Witness ==
    \E p \in Procs :
        LET c == call[p] IN
        /\ Writing(c) /\ c.fileExists /\ ~c.force /\ c.asked = 1 /\ c.agreed
        /\ c.success /\ c.before = File(OldContent) /\ Target(c) = File("# v2")

\* C13: a write whose target did not exist at the existence check, or whose
\* force option is set, never asks the Conflict Resolver; when it completes,
\* the file of the normalized name holds exactly the content, and no file
\* of the name as given was made.
C13_NoGateWhenAbsentOrForced ==
    \A p \in Procs :
        LET c == call[p] IN
        (Writing(c) /\ c.pc \in {"create", "writable", "write", "close", "done"}
            /\ c.validFilename # <<>> /\ (~c.fileExists \/ c.force)) =>
            /\ c.asked = 0
            /\ c.success =>
                  /\ endsWith(c.validFilename, DotMd)
                  /\ c.validFilename \in {trim(c.file.chars), trim(c.file.chars) \o DotMd}
                  /\ files[c.dir][c.validFilename] = File(c.content)
                  /\ files[c.dir][c.file.chars] = NoFile

C13_Witness ==
    \E p \in Procs :
        LET c == call[p] IN
        /\ Writing(c) /\ c.success /\ c.asked = 0 /\ ~c.force /\ ~c.fileExists
        /\ c.file = Str(<<" ", "n">>) /\ c.validFilename = <<"n", ".", "m", "d">>
        /\ c.before = NoFile /\ Target(c) = File("# v2")

\* C14 as claimed: while a write is under way and after it has ended, however
\* it ended, a read of its file finds what the existence check found (the
\* old content, or no file) or exactly the new content.
C14_NoPartialWrites ==
    \A p \in Procs :
        LET c == call[p] IN
        (Writing(c) /\ c.pc \in {"confirm", "create", "writable", "write", "close", "done"}
            /\ c.validFilename # <<>> /\ c.dir # Null) =>
            Target(c) \in {c.before, File(c.content)}

\* C17 as claimed: a writeContentFile call that ends with 'File write
\* cancelled by user' asked the Conflict Resolver and was declined.
C17_CancelledOnlyWhenDeclined ==
    \A p \in Procs :
        LET c == call[p] IN
        (Writing(c) /\ Done(c) /\ c.err = ErrWriteCancelled) =>
            c.asked = 1 /\ ~c.agreed /\ c.acquireErr = NoError

\* C18 as claimed: a write whose overwrite was declined settles as a result,
\* not as a thrown error.
C18_DeclineIsNotAnError ==
    \A p \in Procs :
        LET c == call[p] IN
        (Writing(c) /\ Done(c) /\ c.asked = 1 /\ ~c.agreed) => c.err = NoError

\* C15 as claimed: when a click handler invokes showDirectoryPicker or
\* requestPermission, no timer and no unrelated promise has been awaited
\* since the click.
C15_NoForeignAwaitBeforePicker ==
    \A p \in Procs :
        LET c == call[p] IN
        (c.ui # "none" /\ c.pc \in {"picker", "request"}) => c.foreign = 0

\* C28: checkDirectoryPermission queries first and requests only after a
\* query that did not answer 'granted'; it answers true exactly when the
\* permission is then 'granted'.  validateDirectoryHandle answers true exactly
\* when the handle is a directory whose enumeration yields a first step.
\* Neither ends the call with an error of its own: the only errors set by a
\* step that leaves a gate are the caller's 'denied' and 'invalid' throws for
\* a picked item.
C28_GateNeverThrows ==
    [][\A p \in Procs :
          LET c == call[p]
              d == call'[p]
              own == IF c.ctx = "picked" THEN {NoError, ErrDenied, ErrInvalid} ELSE {NoError} IN
          /\ (d.pc = "request" /\ c.pc # "request") =>
                c.pc = "query" /\ perm[c.h] # "granted" /\ d.requests = c.requests
          /\ (c.pc \in {"query", "request"} /\ d.pc \notin {"query", "request"}) =>
                /\ perm'[c.h] = "granted" => c.h \in d.permOk /\ d.failed = c.failed
                /\ perm'[c.h] # "granted" => c.h \in d.failed /\ d.permOk = c.permOk
                /\ d.err \in own
          /\ (c.pc = "validate" /\ d.pc # "validate") =>
                LET valid == c.h \in Handles /\ enumerable[c.h] IN
                /\ valid => c.h \in d.validOk /\ d.failed = c.failed
                /\ ~valid => c.h \in d.failed /\ d.validOk = c.validOk
                /\ d.err \in own
      ]_vars

C28_Witness ==
    \E p \in Procs :
        LET c == call[p] IN
        /\ Acquiring(c) /\ c.ctx = "stored" /\ c.pc = "clear" /\ c.lastGate = "validate"
        /\ c.h \in c.permOk /\ c.h \in c.failed /\ ~enumerable[c.h] /\ c.err = NoError

Reading(c) == c.op = "read" \/ (c.op = "acquire" /\ c.outer # <<>> /\ Head(c.outer) = "read")

\* C23: no step of a readContentFile call changes any file or the set of
\* files.  A read whose normalized name resolves to no file ends with
\* 'File not found: <name>' and returns nothing; a read that succeeds returns
\* the whole content the file has.
C23_ReadNeverWrites ==
    [][\A p \in Procs :
          LET c == call[p]
              d == call'[p] IN
          (Reading(c) \/ Reading(d)) =>
              /\ files' = files
              /\ (c.pc = "resolve" /\ ~files[c.dir][c.validFilename].exists
                     /\ d.lookup # "failed") =>
                    /\ d.pc = "done" /\ ~d.success
                    /\ d.err = "File not found: " \o Join(c.file.chars)
              /\ (d.pc = "done" /\ d.success /\ c.pc # "done") =>
                    /\ files[c.dir][c.validFilename].exists
                    /\ d.text = files[c.dir][c.validFilename].data
                    /\ d.err = NoError
      ]_vars

C23_Witness ==
    \E p \in Procs :
        LET c == call[p] IN
        /\ c.op = "read" /\ c.pc = "done" /\ c.lookup = "NotFoundError"
        /\ ~files[c.dir][c.validFilename].exists
        /\ c.err = "File not found:  n"

\* C24: a readContentFile call whose name is empty or blank has settled
\* without entering getContentDirectoryHandle: no gate was consulted, no
\* picker was opened, no permission was requested and the store was not
\* touched (violated: the directory is acquired before the name is looked at).
C24_BlankNameReadSkipsAcquire ==
    \A p \in Procs :
        LET c == call[p] IN
        (c.op = "read" /\ Done(c) /\ ~ensureMarkdownExtension(c.file).ok) =>
            /\ c.lastGate = "none" /\ c.picks = 0 /\ c.requests = 0
            /\ c.reads = 0 /\ c.puts = 0 /\ c.clears = 0
            /\ c.err = FailedToRead(ErrEmptyName)

Listing(c) == c.op = "list" /\ Done(c) /\ c.outer = <<>>
MarkdownFile(e) ==
    /\ e.kind = "file"
    /\ Len(e.name) >= 3
    /\ e.name[Len(e.name) - 2] = "." /\ e.name[Len(e.name) - 1] = "m"
    /\ e.name[Len(e.name)] = "d"

\* C21: a listContentFiles call that has settled failed with 'Failed to list
\* files: ...' when the directory could not be acquired; when it succeeded,
\* the names it returns are, in enumeration order, exactly the entries of the
\* directory that are files whose name ends in ".md" (lower case); and when
\* the directory was acquired and its enumeration ran to the end it
\* succeeded, with the empty sequence on an empty directory.
C21_ListingIsTheMarkdownFiles ==
    \A p \in Procs :
        LET c == call[p]
            expected == SelectSeq(Enumeration(c.dir), MarkdownFile) IN
        Listing(c) =>
            /\ c.acquireErr # NoError =>
                  ~c.success /\ c.err = "Failed to list files: " \o c.acquireErr
            /\ c.success =>
                  /\ c.acquireErr = NoError /\ c.err = NoError
                  /\ Len(c.listed) = Len(expected)
                  /\ \A i \in DOMAIN expected : c.listed[i].name = expected[i].name
            /\ (c.acquireErr = NoError /\ c.lookup = "found") => c.success
            /\ (c.acquireErr = NoError /\ c.lookup = "found" /\ Enumeration(c.dir) = <<>>) =>
                  c.listed = <<>>

C21_Witness ==
    \E p \in Procs :
        LET c == call[p] IN
        /\ Listing(c) /\ c.success /\ Len(c.listed) = 1 /\ Len(entries) = 2
        /\ \E i \in DOMAIN entries :
              entries[i].kind = "directory" \/ entries[i].name = <<"c", ".", "M", "D">>

\* C22: every content file a listContentFiles call returned has a slug that
\* is its name without the trailing ".md": slug + ".md" is the name
\* (violated: replace removes the first ".md" of the name, not the last).
C22_SlugIsNameWithoutExtension ==
    \A p \in Procs :
        LET c == call[p] IN
        (Listing(c) /\ c.success) =>
            \A i \in DOMAIN c.listed : c.listed[i].slug \o DotMd = c.listed[i].name

\* C25: over every sequence of direct store, get and clear calls the
\* 'handles' store holds at most one record, and only under
\* DIRECTORY_HANDLE_KEY; once a store call has succeeded (and until a clear)
\* the one record is the value of the latest successful store, also when the
\* same handle was stored twice, and a get that has settled returned it.
C25_SingleRecord ==
    /\ Cardinality(DOMAIN handles) <= 1
    /\ DOMAIN handles \subseteq {"content-directory-handle"}
    /\ \A p \in Procs :
          LET c == call[p] IN
          (c.op \in {"store", "get", "clear"} /\ Done(c) /\ c.log # <<>>) =>
              /\ DOMAIN handles = {"content-directory-handle"}
              /\ handles["content-directory-handle"] = c.log[Len(c.log)]
              /\ (c.op = "get") => c.err = NoError /\ c.ret = c.log[Len(c.log)]

C25_Witness ==
    \E p \in Procs :
        LET c == call[p] IN
        /\ c.op = "get" /\ Done(c) /\ Len(c.log) = 2 /\ c.ret = c.log[2]
        /\ Cardinality(DOMAIN handles) = 1

\* C26 as stated: a clearStoredDirectoryHandle call that has settled has
\* succeeded and left no record, whatever was stored; a
\* getStoredDirectoryHandle call that has settled has not thrown, and has
\* returned null when there is no record.
C26_ClearAlwaysSucceeds ==
    \A p \in Procs :
        LET c == call[p] IN
        /\ (c.op = "clear" /\ Done(c)) => c.err = NoError /\ stored = Null
        /\ (c.op = "get" /\ Done(c)) => c.err = NoError /\ (stored = Null => c.ret = Null)

\* C26, amended: when the database can be opened, a
\* clearStoredDirectoryHandle call that has settled has succeeded and left
\* the store without a record, whether or not there was one (so a second
\* clear succeeds as the first did); when the database cannot be opened the
\* call throws 'Failed to clear directory handle: ...'.
\* A getStoredDirectoryHandle call that has settled has never thrown, and
\* has returned null when there is no record, right after a clear included.
C26_ClearIdempotentGetNeverThrows ==
    \A p \in Procs :
        LET c == call[p] IN
        /\ (c.op = "clear" /\ Done(c) /\ dbOk) =>
              c.err = NoError /\ stored = Null /\ DOMAIN handles = {}
        /\ (c.op = "clear" /\ Done(c) /\ ~dbOk) => c.err = MsgClear
        /\ (c.op = "get" /\ Done(c)) => c.err = NoError /\ (stored = Null => c.ret = Null)

C26_Witness ==
    \E p \in Procs :
        LET c == call[p] IN
        /\ c.op = "clear" /\ Done(c) /\ c.prev = "clear" /\ c.prevErr = NoError
        /\ c.err = NoError /\ stored = Null

\* C27: while a write waits for the answer the modal is in the document and
\* the promise is unresolved; once a write that asked has gone on, the
\* promise was resolved exactly once and the modal is gone; the answer was
\* 'overwrite' exactly when the Overwrite button was clicked, so a click on
\* the backdrop (or on Cancel) declined, the call ended as cancelled and
\* opened no stream; a click on the panel resolves nothing.
C27_ConflictResolver ==
    \A p \in Procs :
        LET c == call[p] IN
        /\ c.asked = 0 => ~c.modal /\ c.resolutions = 0
        /\ (c.asked > 0 /\ c.pc = "confirm") =>
              c.modal /\ c.resolutions = 0 /\ c.clicked \subseteq {"panel"}
        /\ (c.asked > 0 /\ c.pc # "confirm") =>
              /\ ~c.modal /\ c.resolutions = 1
              /\ c.resolvedBy \in {"cancel-btn", "overwrite-btn", "modal"}
              /\ c.agreed <=> c.resolvedBy = "overwrite-btn"
              /\ ~c.agreed => c.pc = "done" /\ c.err = ErrWriteCancelled /\ c.streams = 0

C27_Witness ==
    \E p \in Procs :
        LET c == call[p] IN
        /\ c.op = "write" /\ Done(c) /\ c.asked = 1 /\ c.resolvedBy = "modal"
        /\ "panel" \in c.clicked /\ ~c.modal /\ ~c.agreed

BothSettled == \A p \in Procs : call[p].op = "write" /\ Done(call[p])
Committed(h) == {p \in Procs : call[p].closedAt > 0 /\ call[p].dir = h}
LastCommitted(h) ==
    CHOOSE p \in Committed(h) : \A q \in Committed(h) : call[q].closedAt <= call[p].closedAt

\* C29: when two writeContentFile calls on the same (normalized) name have
\* both settled, in every directory where a close committed the file holds
\* exactly the content of the call whose close committed last; and every
\* call that found the file existing and was not forced asked once for
\* confirmation, whatever the other call did.
C29_LastCommittedWins ==
    /\ BothSettled =>
          \A h \in Handles :
              Committed(h) # {} =>
                  files[h][<<"n", ".", "m", "d">>] = File(call[LastCommitted(h)].content)
    /\ \A p \in Procs :
          LET c == call[p] IN
          (Writing(c) /\ c.pc \notin {"exists"} /\ c.dir # Null
             /\ c.validFilename # <<>> /\ c.acquireErr = NoError) =>
              /\ (c.fileExists /\ ~c.force) => c.asked = 1
              /\ ~(c.fileExists /\ ~c.force) => c.asked = 0

C29_Witness ==
    /\ BothSettled
    /\ \A p \in Procs : call[p].success /\ ~call[p].force
    /\ call["t1"].dir = call["t2"].dir
    /\ call["t2"].asked = 0 /\ call["t2"].created
    /\ call["t1"].before = File("") /\ call["t1"].asked = 1 /\ call["t1"].agreed
    /\ call["t1"].closedAt = 2 /\ call["t2"].closedAt = 1
    /\ files[call["t1"].dir][<<"n", ".", "m", "d">>] = File("# v2")

\* a writeContentFile call entered by a Sidebar handler and not yet settled
WriteInFlight(c) ==
    /\ c.ui \in SidebarHandlers
    /\ \/ c.op = "acquire" /\ c.outer # <<>> /\ Head(c.outer) = "write"
       \/ c.op = "write" /\ c.pc # "done"

\* C30: at no time are two writeContentFile calls entered from Save Current
\* or Create Document in flight together (violated: Save Current stays
\* enabled while a save or a create is running).
C30_SidebarSerializesWrites ==
    Cardinality({p \in Procs : WriteInFlight(call[p])}) <= 1

\* C31: a resetDirectoryAccess call is never left with a promise that no
\* handler will settle: whatever the database holds, the call is on its way
\* to resolve (violated: with the 'handles' store present the onsuccess
\* handler throws before it arranges for resolve).
C31_ResetNeverStuck ==
    \A p \in Procs : Resetting(call[p]) => call[p].pc # "stuck"

\* C32: an isDirectoryAccessConfigured call that has answered false after a
\* cached or stored handle failed a gate, with a working storage engine, has
\* left the cache empty and the store without any handle that failed
\* (violated: a cached handle that fails validation stays cached and stored).
C32_ProbeInvalidates ==
    \A p \in Procs :
        LET c == call[p] IN
        (Probing(c) /\ Done(c) /\ ~c.answer /\ dbOk /\ c.failed # {}) =>
            contentDirectoryHandle = Null /\ stored \notin c.failed

\* C34: isDirectoryAccessConfigured never throws: in every environment and
\* storage state the call carries no error and no value other than its
\* boolean answer, and when the File System Access API is unsupported it
\* answers false without reading the store or checking any handle.
C34_ProbeNeverThrows ==
    \A p \in Procs :
        LET c == call[p] IN
        Probing(c) =>
            /\ c.err = NoError /\ c.ret = Null /\ c.pc # "stuck"
            /\ c.answer \in BOOLEAN
            /\ ~isFileSystemAccessSupported =>
                  /\ Done(c) /\ ~c.answer
                  /\ c.reads = 0 /\ c.clears = 0 /\ c.lastGate = "none"

C34_Witness ==
    \E p \in Procs :
        LET c == call[p] IN
        /\ Probing(c) /\ Done(c) /\ ~c.answer
        /\ ~isFileSystemAccessSupported
        /\ stored # Null /\ perm[stored] = "granted" /\ enumerable[stored]

\* a probe that met a failing storage engine settled with false
C34_WitnessEngineFailure ==
    \E p \in Procs :
        LET c == call[p] IN
        /\ Probing(c) /\ Done(c) /\ ~c.answer /\ c.err = NoError
        /\ isFileSystemAccessSupported /\ ~dbOk /\ c.reads = 1

\* C33: when isDirectoryAccessConfigured has returned true, the cache holds
\* the handle it examined and that handle passed the permission and the
\* validation gate in that call; and the acquire that follows it, as long as
\* that handle has not failed a gate (no revocation or deletion), starts from
\* that cached handle, never invokes the picker and, once settled, has
\* returned that handle from the cache.
C33_ProbeTrueMeansCached ==
    \A p \in Procs :
        LET c == call[p] IN
        /\ (Probing(c) /\ Done(c) /\ c.answer) =>
              /\ c.h # Null /\ contentDirectoryHandle = c.h
              /\ c.h \in c.permOk /\ c.h \in c.validOk
              /\ c.picks = 0
        /\ (Acquiring(c) /\ c.probed # Null /\ ~c.cachedFailed) =>
              /\ c.entryCache = c.probed
              /\ c.picks = 0 /\ c.pc # "picker" /\ c.reads = 0
              /\ Done(c) => c.err = NoError /\ c.ret = c.probed /\ c.path = "cached"

C33_Witness ==
    \E p \in Procs :
        LET c == call[p] IN
        /\ Acquiring(c) /\ Succeeded(c) /\ ~c.gesture
        /\ c.probed # Null /\ c.ret = c.probed /\ c.path = "cached"
        /\ c.picks = 0 /\ stored = c.ret

\* a call of writeContentFile, the acquisition inside it included
InWrite(c) == c.op = "write" \/ (c.op = "acquire" /\ c.outer # <<>> /\ Head(c.outer) = "write")
\* content that is empty or not a string
BadContent(c) == c.content = "" \/ c.contentType # "string"

\* C39: a writeContentFile call whose content is empty or not a string has
\* failed with 'Content must be a non-empty string' by the end of the step
\* that starts it: getContentDirectoryHandle is never entered, so no picker
\* is shown, no store read or gate happens, the Conflict Resolver is not
\* invoked, and that step leaves the cache, the durable store, the
\* permissions and all files as they were.
C39_ContentValidatedFirst ==
    [][\A p \in Procs :
          LET d == call'[p] IN
          (d # call[p] /\ InWrite(d) /\ BadContent(d)) =>
              /\ Writing(d) /\ Done(d) /\ d.err = FailedToWrite(MsgContent)
              /\ ~d.success /\ d.dir = Null
              /\ d.picks = 0 /\ ~d.shown /\ d.reads = 0 /\ d.clears = 0 /\ d.puts = 0
              /\ d.requests = 0 /\ d.lastGate = "none"
              /\ d.asked = 0 /\ ~d.modal /\ d.streams = 0 /\ ~d.created
              /\ UNCHANGED <<contentDirectoryHandle, handles, files, perm>>]_vars

C39_Witness ==
    \E p \in Procs :
        LET c == call[p] IN
        /\ Writing(c) /\ Done(c) /\ c.contentType = "number"
        /\ c.err = FailedToWrite(MsgContent) /\ c.gesture
        /\ contentDirectoryHandle = Null /\ stored = Null /\ hasShowDirectoryPicker
        /\ \A h \in Handles : perm[h] = "prompt"

\* C38: a writeContentFile call that succeeded reports wasOverwritten = true
\* exactly when the file it committed to existed already (it was not made by
\* this call's getFileHandle) and the replacement was forced or accepted, and
\* wasOverwritten = false exactly when this call made the file (violated
\* when another write makes the file between this call's existence check and
\* its getFileHandle).
C38_WasOverwrittenIsExact ==
    \A p \in Procs :
        LET c == call[p] IN
        (Writing(c) /\ c.success) =>
            /\ c.wasOverwritten <=> ~c.created
            /\ c.wasOverwritten => (c.force \/ c.agreed)

\* C35: a writeContentFile call without force whose close committed over a
\* file it had not made itself, or over content another call had committed
\* to it in the meantime, asked the Conflict Resolver once in that same call
\* and was answered with accept (violated: the existence check and the
\* commit are separate steps and the answer of the check is never renewed).
C35_GateHoldsUnderInterleaving ==
    \A p \in Procs :
        LET c == call[p] IN
        (Writing(c) /\ c.closedAt > 0 /\ ~c.force
            /\ (~c.created \/ c.replaced # File(""))) =>
            c.asked = 1 /\ c.agreed

\* a call of readContentFile, writeContentFile or listContentFiles, the
\* acquisition inside it included
FileOperation(c) ==
    \/ c.op \in {"read", "write", "list"}
    \/ c.op = "acquire" /\ c.outer # <<>> /\ Head(c.outer) \in {"read", "write", "list"}

\* C37: no step of a readContentFile, writeContentFile or listContentFiles
\* call that was entered with a cached handle, and whose cached handle has
\* not failed a gate, changes the cache or the durable store: from entry to
\* settling, whether the call succeeds, is declined at the Conflict Resolver
\* or fails, the cache holds the handle the call found there.
C37_FileOpsLeaveSession ==
    [][\A p \in Procs :
          LET d == call'[p] IN
          (d # call[p] /\ FileOperation(d) /\ d.entryCache # Null /\ ~d.cachedFailed) =>
              /\ UNCHANGED <<contentDirectoryHandle, handles>>
              /\ contentDirectoryHandle' = d.entryCache
              /\ d.picks = 0 /\ d.puts = 0 /\ d.clears = 0]_vars

C37_Witness ==
    \E p \in Procs :
        LET c == call[p] IN
        /\ Writing(c) /\ Declined(c) /\ c.err = ErrWriteCancelled
        /\ c.entryCache # Null /\ ~c.cachedFailed
        /\ contentDirectoryHandle = c.entryCache /\ stored = c.entryCache

\* a read that failed with a missing file and a listing that succeeded, both
\* from the cached handle
C37_WitnessRead ==
    \E p \in Procs :
        LET c == call[p] IN
        /\ c.op = "read" /\ Done(c) /\ c.lookup = "NotFoundError"
        /\ c.entryCache # Null /\ contentDirectoryHandle = c.entryCache

C37_WitnessList ==
    \E p \in Procs :
        LET c == call[p] IN
        /\ c.op = "list" /\ Succeeded(c) /\ c.entryCache # Null
        /\ contentDirectoryHandle = c.entryCache

\* C36: once every getContentDirectoryHandle, isDirectoryAccessConfigured
\* and resetDirectoryAccess call of the page has settled, a non-empty cache
\* holds the handle the durable store holds (violated: a call that clears
\* the store after a refused permission request runs while another call,
\* which read the same record earlier, is granted and caches the handle).
C36_CacheAgreesWithStore ==
    (/\ \A p \in Procs : call[p].pc \in {"idle", "done"} /\ call[p].outer = <<>>
     /\ contentDirectoryHandle # Null) =>
        stored = contentDirectoryHandle

\* C40: a storeDirectoryHandle, getStoredDirectoryHandle or
\* clearStoredDirectoryHandle call that has settled has closed every
\* connection it opened (violated: storeDirectoryHandle on a database without
\* the 'handles' store throws out of db.transaction and never calls close).
C40_ConnectionsClosed ==
    \A p \in Procs :
        LET c == call[p] IN
        (c.op \in {"store", "get", "clear"} /\ Done(c)) => c.closed = c.opened

====
